---- MODULE Spec2Model ----
(***************************************************************************)
(* Keppel: token issuer/verifier (package auth), manifest ingest           *)
(* (package processor) and the replica manifest sync sweep (package        *)
(* tasks), as state machines.                                              *)
(*                                                                         *)
(* Three specifications share the module:                                  *)
(*   SpecToken   IssueToken / parseToken under key rotation and time       *)
(*   SpecIngest  Processor.ValidateAndStoreManifest on one repository      *)
(*   SpecSync    Janitor.performManifestSync on one replica repository     *)
(* Each one leaves the variables of the other two at their idle values.    *)
(***************************************************************************)
EXTENDS Integers, Sequences, FiniteSets, TLC

VARIABLES
    \* ---- token engine
    cfg,        \* keppel.Configuration: hostnames and issuer key lists
    tok,        \* the bearer token under study (None: no token yet)
    prov,       \* how tok came to be: the IssueToken call and what was done to it
    res,        \* result of the parseToken call made by the last step (None otherwise)
    \* ---- database and storage of one account
    account,    \* the keppel.Account row
    repos,      \* names of existing Repository rows
    mounts,     \* blobs usable in a repository: [repo, digest]
    manifests,  \* Manifest rows: [repo, digest, mediaType, sizeBytes]
    tags,       \* Tag rows: [repo, name, digest]
    mrefs,      \* ManifestManifestRef rows: [repo, parent, child]
    brefs,      \* ManifestBlobRef rows: [repo, digest, blob]
    storage,    \* manifest objects of the storage driver: [repo, digest, contents]
    lastPush,   \* call and outcome of the ValidateAndStoreManifest made by the last step
    \* ---- replica manifest sync sweep
    upstream,   \* digests that still exist on the primary account
    sweep,      \* local variables and position of performManifestSync
    \* ---- janitor
    now,        \* j.timeNow(), in minutes
    sched,      \* repos.next_manifest_sync_at of the replica repository
    ret,        \* what the janitor call that returned last returned
    job,        \* the job loop: the item of the last call, the time of the last
                \* call that found work
    applied,    \* a function under study: its arguments and what it returned
    \* ---- blob replication
    blobs,      \* rows of blobs in a replica account: [account, digest, storageID]
    requests,   \* what each reader of a blob that is not here is doing, and the
                \* fetches made from the primary
    \* ---- client-side validation
    session,    \* the ValidationSession (isValid) and what the last call on it did
    registry    \* what each repository gives to a RepoClient that downloads from it

tokenVars == <<cfg, tok, prov, res>>
dbVars == <<account, repos, mounts, manifests, tags, mrefs, brefs, storage>>
ingestVars == <<dbVars, lastPush>>
replicaVars == <<blobs, requests>>
janitorVars == <<now, sched, ret, job, applied, replicaVars>>
syncVars == <<upstream, sweep, janitorVars>>
clientVars == <<session, registry>>
vars == <<tokenVars, ingestVars, syncVars, clientVars>>

None == "none"

NoToken == [kind |-> "none"]

NoProvenance == [kind |-> "none"]

NoResult == [kind |-> "none"]

NoReturn == [kind |-> "none"]

\* a nullable timestamp column
NullTime == [null |-> TRUE, at |-> 0]

TimeAt(t) == [null |-> FALSE, at |-> t]

\* nobody reads a blob
NoRequests == [kind |-> "none"]

\* no function has been called
NoCall == [fn |-> "none"]

NoSession == [kind |-> "none"]

NoRegistry == [kind |-> "none"]

\* the job loop before its first call, or after a call that found no work
\* (was: validated_at and validation_error_message of the item as found)
NoJob == [item |-> "", lastCall |-> NullTime, was |-> [at |-> 0, message |-> ""]]

NoIdentity == [Driver |-> "", UserName |-> ""]

\* Elements of a sequence, and a sequence without repetitions
Range(s) == {s[i] : i \in 1..Len(s)}

SeqsUpTo(S, n) == UNION {[1..k -> S] : k \in 0..n}

(***************************************************************************)
(*                            TOKEN ENGINE                                 *)
(***************************************************************************)

\* ---- bounds of the token model
MaxScopes == 2

\* ---- program constants
TokenLifetime == 14400

ClockSkew == 3

LocalService == "local"

AnycastService == "anycast"

Services == {LocalService, AnycastService}

\* Private keys that occur. K1, K2 are this instance's own keys (K2 the newer
\* one), A1 is the anycast key shared with the peers, KP is a peer's own key
\* and KX is a key that no configuration ever holds.
OwnKeys == {"K1", "K2", "A1"}

AllKeys == OwnKeys \cup {"KP", "KX"}

KeyType(key) == IF key \in {"K2", "A1"} THEN "rsa" ELSE "ed25519"

\* JWT signing methods known to the library, with the Go type that implements each
SigningMethods == {"EdDSA", "RS256", "RS384", "ES256", "HS256"}

MethodType(m) ==
    CASE m = "EdDSA" -> "SigningMethodEd25519"
      [] m \in {"RS256", "RS384"} -> "SigningMethodRSA"
      [] m = "ES256" -> "SigningMethodECDSA"
      [] OTHER -> "SigningMethodHMAC"

chooseSigningMethod(key) ==
    IF KeyType(key) = "ed25519" THEN "EdDSA" ELSE "RS256"

derivePublicKey(key) == <<"public", key>>

\* hex of the public key for Ed25519, "<e>:<n>" for RSA: a fingerprint that
\* is different for different keys
serializePublicKey(key) ==
    IF KeyType(key) = "ed25519" THEN <<"hex", key>> ELSE <<"e:n", key>>

\* *m1 == *m2 after the type switch: SigningMethodEd25519 is an empty struct,
\* SigningMethodRSA and SigningMethodECDSA carry their name and hash
equalSigningMethods(m1, m2) ==
    /\ MethodType(m1) = MethodType(m2)
    /\ MethodType(m1) = "SigningMethodEd25519" \/ m1 = m2

\* ---- Service.Hostname, Service.IssuerKeys
Hostname(c, audience) ==
    IF audience = LocalService THEN c.APIPublicHostname
    ELSE c.AnycastAPIPublicHostname

IssuerKeys(c, audience) ==
    IF audience = LocalService THEN c.JWTIssuerKeys
    ELSE c.AnycastJWTIssuerKeys

\* ---- scopes
ScopeUniverse ==
    { [ResourceType |-> "repository", ResourceName |-> "test1/foo", Actions |-> {"pull"}],
      [ResourceType |-> "repository", ResourceName |-> "test1/foo", Actions |-> {"push"}],
      [ResourceType |-> "repository", ResourceName |-> "test1/bar", Actions |-> {"pull"}] }

SameResource(s1, s2) ==
    s1.ResourceType = s2.ResourceType /\ s1.ResourceName = s2.ResourceName

\* ScopeSet.Add: merge the actions into the entry for the same resource, or append
ScopeSetAdd(ss, scope) ==
    IF \E i \in 1..Len(ss) : SameResource(ss[i], scope)
    THEN [i \in 1..Len(ss) |->
            IF SameResource(ss[i], scope)
            THEN [ss[i] EXCEPT !.Actions = @ \cup scope.Actions]
            ELSE ss[i]]
    ELSE Append(ss, scope)

\* ScopeSet.Flatten: the entries as a plain list
Flatten(ss) == ss

\* ---- identities and their embedding
Identities ==
    { [Driver |-> "keystone", UserName |-> "alice"],
      [Driver |-> "anon", UserName |-> ""] }

\* UserIdentity.SerializeToJSON: (type name, payload)
SerializeToJSON(id) == <<id.Driver, <<"payload", id.UserName>>>>

\* embeddedUserIdentity.MarshalJSON: the object {typeName: payload}
MarshalJSON(id) ==
    LET tp == SerializeToJSON(id)
    IN  [typeName \in {tp[1]} |-> tp[2]]

\* keppel.DeserializeUserIdentity
DeserializeUserIdentity(typeName, payload) ==
    IF \E id \in Identities : id.Driver = typeName
    THEN [err |-> FALSE, id |-> [Driver |-> typeName, UserName |-> payload[2]]]
    ELSE [err |-> TRUE, id |-> NoIdentity]

UnmarshalJSON_mutAnyCount(in, authDriver) ==
    IF authDriver = None \/ DOMAIN in = {} THEN [err |-> TRUE, id |-> NoIdentity]
    ELSE LET typeName == CHOOSE t \in DOMAIN in : \A u \in DOMAIN in : t = u \/ t # "anon"
         IN  DeserializeUserIdentity(typeName, in[typeName])

\* embeddedUserIdentity.UnmarshalJSON
UnmarshalJSON(in, authDriver) ==
    IF authDriver = None THEN [err |-> TRUE, id |-> NoIdentity]
    ELSE IF Cardinality(DOMAIN in) # 1 THEN [err |-> TRUE, id |-> NoIdentity]
    ELSE LET typeName == CHOOSE t \in DOMAIN in : TRUE
         IN  DeserializeUserIdentity(typeName, in[typeName])

\* ---- the JWT library (golang-jwt/jwt v4) as parseToken and IssueToken use it

\* Token.SignedString: a signature is good for one key, one method and one
\* signing input (header and claims)
SignedString(key, method, header, claims) ==
    [by |-> derivePublicKey(key), method |-> method, over |-> <<header, claims>>]

\* SigningMethod.Verify of the token's signature with the key the Keyfunc returned
SignatureValid(token, publicKey) ==
    /\ token.Signature.by = publicKey
    /\ token.Signature.method = token.Header.alg
    /\ token.Signature.over = <<token.Header, token.Claims>>

\* RegisteredClaims.Valid, which ParseWithClaims runs at the current time
\* without leeway: exp, iat and nbf
ClaimsValid(claims, t) ==
    /\ t < claims.ExpiresAt
    /\ t >= claims.IssuedAt
    /\ t >= claims.NotBefore

\* RegisteredClaims.VerifyExpiresAt(cmp, true), VerifyNotBefore(cmp, true),
\* VerifyAudience(cmp, true)
VerifyExpiresAt(claims, cmp) == cmp < claims.ExpiresAt

VerifyNotBefore(claims, cmp) == cmp >= claims.NotBefore

VerifyAudience(claims, cmp) == cmp \in claims.Audience

\* ---- IssueToken

\* issuerKey := issuerKeys[0]
ActiveIssuerKey_mutLast(issuerKeys) == issuerKeys[Len(issuerKeys)]

ActiveIssuerKey(issuerKeys) == issuerKeys[1]

IssuerName(hostname) == <<"keppel-api@", hostname>>

\* Authorization.IssueToken at time t under configuration c
IssueToken_mutAudience(a, c, t) ==
    LET issuerKeys == IssuerKeys(c, a.Service)
    IN  IF Len(issuerKeys) = 0
        THEN [err |-> TRUE, token |-> NoToken, expiresIn |-> 0]
        ELSE LET issuerKey == ActiveIssuerKey(issuerKeys)
                 method == chooseSigningMethod(issuerKey)
                 header == [alg |-> method, jwk |-> serializePublicKey(issuerKey)]
                 claims == [Audience |-> {c.APIPublicHostname},
                            Issuer |-> IssuerName(c.APIPublicHostname),
                            Subject |-> a.UserIdentity.UserName,
                            ExpiresAt |-> t + TokenLifetime,
                            NotBefore |-> t,
                            IssuedAt |-> t,
                            Access |-> Flatten(a.ScopeSet),
                            Embedded |-> MarshalJSON(a.UserIdentity)]
             IN  [err |-> FALSE,
                  token |-> [kind |-> "jwt", Header |-> header, Claims |-> claims,
                             Signature |-> SignedString(issuerKey, method, header, claims)],
                  expiresIn |-> (t + TokenLifetime) - t]

IssueToken(a, c, t) ==
    LET issuerKeys == IssuerKeys(c, a.Service)
    IN  IF Len(issuerKeys) = 0
        THEN [err |-> TRUE, token |-> NoToken, expiresIn |-> 0]
        ELSE LET issuerKey == ActiveIssuerKey(issuerKeys)
                 method == chooseSigningMethod(issuerKey)
                 publicHost == Hostname(c, a.Service)
                 header == [alg |-> method, jwk |-> serializePublicKey(issuerKey)]
                 claims == [Audience |-> {publicHost},
                            Issuer |-> IssuerName(c.APIPublicHostname),
                            Subject |-> a.UserIdentity.UserName,
                            ExpiresAt |-> t + TokenLifetime,
                            NotBefore |-> t,
                            IssuedAt |-> t,
                            Access |-> Flatten(a.ScopeSet),
                            Embedded |-> MarshalJSON(a.UserIdentity)]
             IN  [err |-> FALSE,
                  token |-> [kind |-> "jwt", Header |-> header, Claims |-> claims,
                             Signature |-> SignedString(issuerKey, method, header, claims)],
                  expiresIn |-> (t + TokenLifetime) - t]

\* ---- parseToken

ErrUnauthorized == "UNAUTHORIZED"

Rejected(code, msg) ==
    [kind |-> "parsed", ok |-> FALSE, code |-> code, msg |-> msg,
     UserIdentity |-> NoIdentity, ScopeSet |-> <<>>, Service |-> None]

\* the Keyfunc handed to jwt.ParseWithClaims: the key whose fingerprint the
\* header names, provided the header's method is the one generated for it
KeyfuncMatches_mutFirstOnly(token, ourIssuerKeys) ==
    {i \in 1..Len(ourIssuerKeys) :
        i = 1 /\ token.Header.jwk = serializePublicKey(ourIssuerKeys[i])}

KeyfuncMatches(token, ourIssuerKeys) ==
    {i \in 1..Len(ourIssuerKeys) :
        token.Header.jwk = serializePublicKey(ourIssuerKeys[i])}

Keyfunc(token, ourIssuerKeys) ==
    LET matches == KeyfuncMatches(token, ourIssuerKeys)
    IN  IF matches = {}
        THEN [err |-> "token signed by unknown key", key |-> None]
        ELSE LET ourIssuerKey == ourIssuerKeys[CHOOSE i \in matches : \A j \in matches : i <= j]
                 ourSigningMethod == chooseSigningMethod(ourIssuerKey)
             IN  IF ~equalSigningMethods(ourSigningMethod, token.Header.alg)
                 THEN [err |-> "unexpected signing method", key |-> None]
                 ELSE [err |-> "", key |-> derivePublicKey(ourIssuerKey)]

\* jwt.ParseWithClaims: decode, look the key up, validate the registered
\* claims, verify the signature. The result is the error text ("" for none)
\* and the decoded embedded identity.
ParseWithClaims(token, ourIssuerKeys, authDriver, t) ==
    LET embedded == UnmarshalJSON(token.Claims.Embedded, authDriver)
        k == Keyfunc(token, ourIssuerKeys)
    IN  IF token.Header.alg \notin SigningMethods
        THEN [err |-> "signing method (alg) is unavailable", id |-> NoIdentity]
        ELSE IF embedded.err
        THEN [err |-> "token is malformed", id |-> NoIdentity]
        ELSE IF k.err # ""
        THEN [err |-> k.err, id |-> NoIdentity]
        ELSE IF ~SignatureValid(token, k.key)
        THEN [err |-> "signature is invalid", id |-> NoIdentity]
        ELSE IF ~ClaimsValid(token.Claims, t)
        THEN [err |-> IF t >= token.Claims.ExpiresAt THEN "token is expired"
                      ELSE "token is not valid yet",
              id |-> NoIdentity]
        ELSE [err |-> "", id |-> embedded.id]

\* keppel.ErrUnauthorized.With(msg), returned with a nil Authorization
UnauthorizedWith_mutExpiredDenied(msg) ==
    Rejected(IF msg \in {"token expired", "token is expired"} THEN "DENIED"
             ELSE ErrUnauthorized, msg)

UnauthorizedWith(msg) == Rejected(ErrUnauthorized, msg)

\* claims.RegisteredClaims.VerifyAudience(publicHost, true)
AudienceOk_mutSkipped(claims, publicHost) == TRUE

AudienceOk(claims, publicHost) == VerifyAudience(claims, publicHost)

IssuerOk_mutEveryAudience(claims, audience, publicHost) ==
    claims.Issuer = IssuerName(publicHost)

\* if audience == LocalService { if claims.Issuer != "keppel-api@"+publicHost ... }
IssuerOk(claims, audience, publicHost) ==
    audience = LocalService => claims.Issuer = IssuerName(publicHost)

\* parseToken(cfg, ad, audience, tokenStr) at time t
parseToken(c, ad, audience, token, t) ==
    LET parsed == ParseWithClaims(token, IssuerKeys(c, audience), ad, t)
        claims == token.Claims
        publicHost == Hostname(c, audience)
        ss == LET RECURSIVE AddAll(_, _)
                  AddAll(acc, i) ==
                      IF i > Len(claims.Access) THEN acc
                      ELSE AddAll(ScopeSetAdd(acc, claims.Access[i]), i + 1)
              IN  AddAll(<<>>, 1)
    IN  IF parsed.err # ""
        THEN UnauthorizedWith(parsed.err)
        ELSE IF ~VerifyExpiresAt(claims, t - ClockSkew)
        THEN UnauthorizedWith("token expired")
        ELSE IF ~VerifyNotBefore(claims, t + ClockSkew)
        THEN UnauthorizedWith("token not valid yet")
        ELSE IF ~IssuerOk(claims, audience, publicHost)
        THEN UnauthorizedWith("token has wrong issuer")
        ELSE IF ~AudienceOk(claims, publicHost)
        THEN UnauthorizedWith("token has wrong audience")
        ELSE [kind |-> "parsed", ok |-> TRUE, code |-> "", msg |-> "",
              UserIdentity |-> parsed.id, ScopeSet |-> ss, Service |-> audience]


\* ---- the token engine as a state machine

MaxKeys == 2

LocalHostname == "registry.example.org"

AnycastHostname == "anycast.example.org"

\* accounts.external_peer_url of an account that replicates from a registry
\* that is no peer
ExternalPeerURL == "registry.external.example.org"

PeerHostname == "peer.example.org"

\* The peer that shares the anycast keys: its own hostname and its own local key
PeerConfiguration(c) ==
    [c EXCEPT !.APIPublicHostname = PeerHostname, !.JWTIssuerKeys = <<"KP">>]

\* The key an operator puts in front of an audience's list on rotation
RotationPool(audience) ==
    IF audience = LocalService THEN {"K2"} ELSE {"A1"}

\* Clock readings, in seconds. The origin is the verifying instance's clock at
\* the moment the token under study is issued; the clock of the issuing
\* instance may be ahead of it.
IssueTimes == {0, ClockSkew, ClockSkew + 1}

Times ==
    {0, TokenLifetime - 1, TokenLifetime, TokenLifetime + 2, TokenLifetime + 3}

ScopeSets == SeqsUpTo(ScopeUniverse, MaxScopes)

FewScopeSets ==
    {<<>>, <<[ResourceType |-> "repository", ResourceName |-> "test1/foo",
              Actions |-> {"pull"}]>>}

AuthDriver == "authdriver"

\* Who issues for which audience: this instance for both, the peer for anycast
Issuers == {<<"self", LocalService>>, <<"self", AnycastService>>,
            <<"peer", AnycastService>>}

\* Values of the variables of a part of the system that a specification leaves alone
NoAccount == [Name |-> ""]

NoPush == [kind |-> "none"]

IdleSweep == [pc |-> "idle"]

\* After ParseConfiguration: one local key; no anycast, an anycast key of its
\* own, or the local key for anycast as well
InitToken ==
    /\ cfg \in { [APIPublicHostname |-> LocalHostname,
                  AnycastAPIPublicHostname |-> AnycastHostname,
                  JWTIssuerKeys |-> <<"K1">>,
                  AnycastJWTIssuerKeys |-> ak] : ak \in {<<>>, <<"A1">>, <<"K1">>} }
    /\ tok = NoToken
    /\ prov = NoProvenance
    /\ res = NoResult
    /\ session = NoSession
    /\ registry = NoRegistry
    /\ account = NoAccount
    /\ repos = {}
    /\ mounts = {}
    /\ manifests = {}
    /\ tags = {}
    /\ mrefs = {}
    /\ brefs = {}
    /\ storage = {}
    /\ lastPush = NoPush
    /\ upstream = {}
    /\ sweep = IdleSweep
    /\ now = 0
    /\ sched = NullTime
    /\ ret = NoReturn
    /\ job = NoJob
    /\ blobs = {}
    /\ requests = NoRequests
    /\ applied = NoCall

\* An instance (this one or the peer) issues the token under study
Issue(by, service, id, scopes, t0) ==
    LET c == IF by = "self" THEN cfg ELSE PeerConfiguration(cfg)
        a == [UserIdentity |-> id, ScopeSet |-> scopes, Service |-> service]
        r == IssueToken(a, c, t0)
    IN  /\ tok.kind = "none"
        /\ ~r.err
        /\ tok' = r.token
        /\ prov' = [kind |-> "issued", by |-> by, Service |-> service,
                    UserIdentity |-> id, ScopeSet |-> scopes, at |-> t0,
                    keys |-> IssuerKeys(c, service), expiresIn |-> r.expiresIn,
                    tamper |-> "none"]
        /\ res' = NoResult
        /\ UNCHANGED <<cfg, ingestVars, syncVars, clientVars>>

\* Somebody without the issuer keys alters the token; or ("issuer") a holder
\* of the signing key signs the same claims under the name of another instance
TamperKinds == {"jwk", "alg", "claims", "resign", "forge", "embedded", "issuer"}

\* The token with another issuer claim, its signature covering what it
\* covered before
WithIssuer(token, issuer) ==
    [token EXCEPT !.Claims.Issuer = issuer,
                  !.Signature.over = <<@[1], [@[2] EXCEPT !.Issuer = issuer]>>]

Tampered(token, kind) ==
    CASE kind = "jwk" ->
            [token EXCEPT !.Header.jwk = serializePublicKey("KX")]
      [] kind = "alg" ->
            [token EXCEPT !.Header.alg =
                IF @ = "EdDSA" THEN "RS256" ELSE IF @ = "RS256" THEN "RS384" ELSE "EdDSA"]
      [] kind = "claims" ->
            [token EXCEPT !.Claims.ExpiresAt = @ + TokenLifetime]
      [] kind = "resign" ->
            [token EXCEPT !.Signature =
                SignedString("KX", token.Header.alg, token.Header, token.Claims)]
      [] kind = "forge" ->
            LET header == [alg |-> chooseSigningMethod("KX"),
                           jwk |-> serializePublicKey("KX")]
            IN  [token EXCEPT !.Header = header,
                              !.Signature = SignedString("KX", header.alg, header,
                                                         token.Claims)]
      [] kind = "embedded" ->
            [token EXCEPT !.Claims.Embedded =
                [typeName \in {"keystone", "anon"} |-> <<"payload", "root">>]]
      [] kind = "issuer" ->
            WithIssuer(token, IssuerName(IF token.Claims.Issuer = IssuerName(PeerHostname)
                                         THEN LocalHostname ELSE PeerHostname))

Tamper(kind) ==
    /\ tok.kind = "jwt"
    /\ prov.tamper = "none"
    /\ tok' = Tampered(tok, kind)
    /\ prov' = [prov EXCEPT !.tamper = kind]
    /\ res' = NoResult
    /\ UNCHANGED <<cfg, ingestVars, syncVars, clientVars>>

\* Key rotation: a new key is put in front of an audience's list
SetIssuerKeys(c, audience, keys) ==
    IF audience = LocalService THEN [c EXCEPT !.JWTIssuerKeys = keys]
    ELSE [c EXCEPT !.AnycastJWTIssuerKeys = keys]

Rotate(audience, key) ==
    /\ Len(IssuerKeys(cfg, audience)) < MaxKeys
    /\ key \notin Range(IssuerKeys(cfg, audience))
    /\ cfg' = SetIssuerKeys(cfg, audience, <<key>> \o IssuerKeys(cfg, audience))
    /\ res' = NoResult
    /\ UNCHANGED <<tok, prov, ingestVars, syncVars, clientVars>>

\* The oldest key of an audience is taken out of the configuration
Retire(audience) ==
    /\ Len(IssuerKeys(cfg, audience)) > 1
    /\ cfg' = SetIssuerKeys(cfg, audience,
                            SubSeq(IssuerKeys(cfg, audience), 1,
                                   Len(IssuerKeys(cfg, audience)) - 1))
    /\ res' = NoResult
    /\ UNCHANGED <<tok, prov, ingestVars, syncVars, clientVars>>

\* A request presents the token to this instance under one of its audiences
\* when the instance's clock reads t
Verify(audience, t) ==
    /\ tok.kind = "jwt"
    /\ res' = [kind |-> "verified", audience |-> audience, at |-> t,
               out |-> parseToken(cfg, AuthDriver, audience, tok, t)]
    /\ UNCHANGED <<cfg, tok, prov, ingestVars, syncVars, clientVars>>

\* Tokens of every kind, altered or not, with few scope sets
NextToken ==
    \/ \E i \in Issuers, id \in Identities, scopes \in FewScopeSets, t0 \in IssueTimes :
            Issue(i[1], i[2], id, scopes, t0)
    \/ \E kind \in TamperKinds : Tamper(kind)
    \/ \E audience \in Services : \E key \in RotationPool(audience) :
            Rotate(audience, key)
    \/ \E audience \in Services : Retire(audience)
    \/ \E audience \in Services, t \in Times : Verify(audience, t)

\* Unaltered tokens with every scope set
NextRoundTrip ==
    \/ \E i \in Issuers, id \in Identities, scopes \in ScopeSets, t0 \in IssueTimes :
            Issue(i[1], i[2], id, scopes, t0)
    \/ \E audience \in Services : \E key \in RotationPool(audience) :
            Rotate(audience, key)
    \/ \E audience \in Services : Retire(audience)
    \/ \E audience \in Services, t \in Times : Verify(audience, t)

SpecToken == InitToken /\ [][NextToken]_vars

SpecRoundTrip == InitToken /\ [][NextRoundTrip]_vars

(***************************************************************************)
(*                     CLAIMS ABOUT THE TOKEN ENGINE                       *)
(***************************************************************************)

Verified == res.kind = "verified"

\* The request of the last step presented the token as it was issued
VerifiedUntouched == Verified /\ prov.tamper = "none"

NoAuthorization(out) ==
    out.UserIdentity = NoIdentity /\ out.ScopeSet = <<>> /\ out.Service = None

\* The validity window of the token under study, without any tolerance
InsideWindow(t) == prov.at <= t /\ t < prov.at + TokenLifetime

SignedByConfiguredKey(audience) ==
    \E k \in Range(IssuerKeys(cfg, audience)) : tok.Signature.by = derivePublicKey(k)

\* A scope set after normalization, stated without ScopeSet.Add: one entry
\* per (type, name), holding the union of the actions given for it
NormalizedScopes(s) ==
    { [ResourceType |-> x.ResourceType, ResourceName |-> x.ResourceName,
       Actions |-> UNION {y.Actions : y \in {z \in Range(s) : SameResource(z, x)}}]
      : x \in Range(s) }

\* C1: Token round trip. Verifying, under the audience it was issued for and
\* at a time inside its validity window, a token as IssueToken returned it
\* succeeds while its signing key is configured for the audience, and yields
\* the identity it was issued for, that audience as service, and the issued
\* scopes after normalization (no two entries for one (type, name), actions
\* merged by union).
C1_RoundTrip ==
    (/\ VerifiedUntouched
     /\ res.audience = prov.Service
     /\ InsideWindow(res.at)
     /\ SignedByConfiguredKey(res.audience))
    => /\ res.out.ok
       /\ res.out.UserIdentity = prov.UserIdentity
       /\ res.out.Service = prov.Service
       /\ Range(res.out.ScopeSet) = NormalizedScopes(prov.ScopeSet)
       /\ Len(res.out.ScopeSet) = Cardinality(NormalizedScopes(prov.ScopeSet))

\* An anycast token with two scopes for one repository comes back, one second
\* before its exp, as one scope with both actions
C1_Witness ==
    /\ VerifiedUntouched
    /\ res.out.ok
    /\ res.audience = AnycastService
    /\ res.at = prov.at + TokenLifetime - 1
    /\ Len(prov.ScopeSet) = 2
    /\ Len(res.out.ScopeSet) = 1
    /\ res.out.ScopeSet[1].Actions = {"pull", "push"}
    /\ res.out.UserIdentity.UserName = "alice"

\* C2: Audience separation. A token issued for one audience is rejected with
\* UNAUTHORIZED, and no Authorization is returned, when it is verified under
\* the other audience.
C2_AudienceSeparation ==
    (Verified /\ res.audience # prov.Service)
    => /\ ~res.out.ok
       /\ res.out.code = ErrUnauthorized
       /\ NoAuthorization(res.out)

\* A local token, signed by a key that the anycast audience accepts as well,
\* is refused under anycast for its audience claim alone
C2_Witness ==
    /\ VerifiedUntouched
    /\ prov.Service = LocalService
    /\ res.audience = AnycastService
    /\ SignedByConfiguredKey(AnycastService)
    /\ InsideWindow(res.at)
    /\ res.out.msg = "token has wrong audience"

\* C3: Key rotation. (a) A token is signed by the first key of the audience's
\* list at the time of issue and carries that key's fingerprint in its header.
\* (b) A token signed by a key that is still in the audience's list, whatever
\* its position, verifies at every time inside its validity window, so a
\* token signed by K1 verifies after the list changed from [K1] to [K2, K1].
\* (c) A token signed by a key that is not in the list is rejected.
C3_KeyRotation ==
    /\ (prov.kind = "issued" /\ prov.tamper = "none")
       => /\ tok.Signature.by = derivePublicKey(Head(prov.keys))
          /\ tok.Header.jwk = serializePublicKey(Head(prov.keys))
    /\ (/\ VerifiedUntouched
        /\ res.audience = prov.Service
        /\ InsideWindow(res.at)
        /\ SignedByConfiguredKey(res.audience))
       => res.out.ok
    /\ (Verified /\ ~SignedByConfiguredKey(res.audience))
       => (~res.out.ok /\ res.out.code = ErrUnauthorized)

\* Issued under [K1], verified one second before exp under [K2, K1]
C3_Witness ==
    /\ VerifiedUntouched
    /\ prov.Service = LocalService
    /\ prov.keys = <<"K1">>
    /\ cfg.JWTIssuerKeys = <<"K2", "K1">>
    /\ res.audience = LocalService
    /\ res.at = prov.at + TokenLifetime - 1
    /\ res.out.ok

\* The failure modes of verification, stated on the token and the configuration
UnknownKey(audience) ==
    \A k \in Range(IssuerKeys(cfg, audience)) : tok.Header.jwk # serializePublicKey(k)

AlgorithmMismatch(audience) ==
    \E k \in Range(IssuerKeys(cfg, audience)) :
        /\ tok.Header.jwk = serializePublicKey(k)
        /\ tok.Header.alg # (IF KeyType(k) = "ed25519" THEN "EdDSA" ELSE "RS256")

InvalidSignature(audience) ==
    \/ ~SignedByConfiguredKey(audience)
    \/ tok.Signature.over # <<tok.Header, tok.Claims>>

Expired(t) == t - ClockSkew >= tok.Claims.ExpiresAt

NotYetValid(t) == t + ClockSkew < tok.Claims.NotBefore

WrongAudience(audience) == Hostname(cfg, audience) \notin tok.Claims.Audience

WrongIssuer(audience) ==
    /\ audience = LocalService
    /\ tok.Claims.Issuer # <<"keppel-api@", cfg.APIPublicHostname>>

\* C4: Every verification failure is UNAUTHORIZED. parseToken either accepts
\* or answers UNAUTHORIZED without an Authorization, never another code; and
\* it does not accept in any of these cases: the header's key fingerprint
\* matches no configured key of the audience; it matches one but the token's
\* algorithm is not the one derived from that key's type; the signature is
\* invalid; the token is expired; it is not yet valid; the audience claim is
\* wrong; the issuer claim is wrong (local audience).
C4_FailuresUnauthorized ==
    Verified =>
        /\ res.out.ok \/ (res.out.code = ErrUnauthorized /\ NoAuthorization(res.out))
        /\ (\/ UnknownKey(res.audience)
            \/ AlgorithmMismatch(res.audience)
            \/ InvalidSignature(res.audience)
            \/ Expired(res.at)
            \/ NotYetValid(res.at)
            \/ WrongAudience(res.audience)
            \/ WrongIssuer(res.audience))
           => ~res.out.ok

\* A token whose header names a configured RSA key with the wrong RSA method
C4_Witness ==
    /\ Verified
    /\ AlgorithmMismatch(res.audience)
    /\ tok.Header.alg = "RS384"
    /\ ~res.out.ok
    /\ res.out.code = ErrUnauthorized
    /\ res.out.msg = "unexpected signing method"

\* Each failure mode occurs, alone responsible for the rejection
C4_ModeReached(msg) == Verified /\ ~res.out.ok /\ res.out.msg = msg


\* The window in which the token under study is to be accepted: from
\* ClockSkew seconds before its nbf to ClockSkew seconds after its exp
InsideTolerance(t) ==
    /\ prov.at - ClockSkew <= t
    /\ t < prov.at + TokenLifetime + ClockSkew

\* C27: a token issued at t0 has nbf = iat = t0, exp = t0 + 4 h and
\* expires_in = 14400 s; presented as issued, under its audience, while its
\* key is configured, it is accepted at every time t with t0 - 3 s <= t and
\* t < exp + 3 s, and rejected as expired or not yet valid at any other time.
C27_LifetimeAndSkew ==
    /\ (prov.kind = "issued" /\ prov.tamper = "none") =>
          /\ tok.Claims.NotBefore = prov.at
          /\ tok.Claims.IssuedAt = prov.at
          /\ tok.Claims.ExpiresAt = prov.at + 4 * 3600
          /\ prov.expiresIn = 14400
    /\ (/\ VerifiedUntouched
        /\ res.audience = prov.Service
        /\ SignedByConfiguredKey(res.audience)) =>
          IF InsideTolerance(res.at)
          THEN res.out.ok
          ELSE /\ ~res.out.ok
               /\ res.out.msg \in {"token expired", "token is expired",
                                   "token not valid yet", "token is not valid yet"}


\* the issuer claims that are put on the token under study
IssuerNames == {IssuerName(h) : h \in {LocalHostname, PeerHostname, AnycastHostname}}

\* C28: (a) under the local audience a token is accepted only if its issuer
\* claim is "keppel-api@" followed by the local public hostname; (b) under
\* the anycast audience the outcome of the verification stays the same when
\* the issuer claim is replaced by any other; (c) so a token that a peer
\* issued for anycast verifies, inside its validity window, while its key
\* is among the instance's anycast keys.
C28_IssuerByAudience ==
    /\ (Verified /\ res.audience = LocalService /\ res.out.ok) =>
          tok.Claims.Issuer = IssuerName(cfg.APIPublicHostname)
    /\ (Verified /\ res.audience = AnycastService) =>
          \A issuer \in IssuerNames :
              parseToken(cfg, AuthDriver, AnycastService, WithIssuer(tok, issuer),
                         res.at) = res.out
    /\ (/\ VerifiedUntouched
        /\ prov.by = "peer"
        /\ res.audience = AnycastService
        /\ InsideWindow(res.at)
        /\ SignedByConfiguredKey(AnycastService)) => res.out.ok

\* A token that the peer issued for anycast, carrying the peer's name as
\* issuer, was accepted under the anycast audience
C28_Witness ==
    /\ VerifiedUntouched
    /\ prov.by = "peer"
    /\ res.audience = AnycastService
    /\ tok.Claims.Issuer = IssuerName(PeerHostname)
    /\ tok.Claims.Issuer # IssuerName(cfg.APIPublicHostname)
    /\ res.out.ok


(***************************************************************************)
(* The embedded identity by itself: identities are serialized, JSON        *)
(* objects of any shape are deserialized, with and without an auth driver. *)
(***************************************************************************)

MaxComponents == 2

TypeNames == {"keystone", "anon", "ldap"}

Payloads == {<<"payload", userName>> : userName \in {"alice", "bob", ""}}

\* the JSON objects with up to MaxComponents keys
EmbeddedObjects ==
    UNION {[typeNames -> Payloads] :
              typeNames \in {t \in SUBSET TypeNames : Cardinality(t) <= MaxComponents}}

EmbeddedIdentities == Identities \cup {[Driver |-> "keystone", UserName |-> "bob"]}

InitEmbedded ==
    /\ cfg = [APIPublicHostname |-> LocalHostname,
              AnycastAPIPublicHostname |-> AnycastHostname,
              JWTIssuerKeys |-> <<"K1">>, AnycastJWTIssuerKeys |-> <<>>]
    /\ tok = NoToken
    /\ prov = NoProvenance
    /\ res = NoResult
    /\ session = NoSession
    /\ registry = NoRegistry
    /\ account = NoAccount
    /\ repos = {}
    /\ mounts = {}
    /\ manifests = {}
    /\ tags = {}
    /\ mrefs = {}
    /\ brefs = {}
    /\ storage = {}
    /\ lastPush = NoPush
    /\ upstream = {}
    /\ sweep = IdleSweep
    /\ now = 0
    /\ sched = NullTime
    /\ ret = NoReturn
    /\ job = NoJob
    /\ blobs = {}
    /\ requests = NoRequests
    /\ applied = NoCall

\* json.Marshal of an embeddedUserIdentity
Marshal(id) ==
    /\ tok' = [kind |-> "embedded", json |-> MarshalJSON(id)]
    /\ prov' = [kind |-> "marshalled", id |-> id]
    /\ res' = NoResult
    /\ UNCHANGED <<cfg, ingestVars, syncVars, clientVars>>

\* a JSON object arrives from elsewhere
Receive(object) ==
    /\ tok' = [kind |-> "embedded", json |-> object]
    /\ prov' = [kind |-> "received"]
    /\ res' = NoResult
    /\ UNCHANGED <<cfg, ingestVars, syncVars, clientVars>>

\* json.Unmarshal into an embeddedUserIdentity whose AuthDriver is authDriver
Unmarshal(authDriver) ==
    /\ tok.kind = "embedded"
    /\ res' = [kind |-> "unmarshalled", authDriver |-> authDriver,
               out |-> UnmarshalJSON(tok.json, authDriver)]
    /\ UNCHANGED <<cfg, tok, prov, ingestVars, syncVars, clientVars>>

NextEmbedded ==
    \/ \E id \in EmbeddedIdentities : Marshal(id)
    \/ \E object \in EmbeddedObjects : Receive(object)
    \/ \E authDriver \in {None, AuthDriver} : Unmarshal(authDriver)

SpecEmbedded == InitEmbedded /\ [][NextEmbedded]_vars

\* C29: (a) a serialized identity is an object with exactly one key, the
\* identity's type name, mapped to its payload; (b) deserializing fails, and
\* gives no identity, when the object has no key or more than one, or when
\* there is no auth driver; (c) otherwise the one (type name, payload) pair
\* goes to DeserializeUserIdentity and its result is the result; (d) so
\* deserializing a serialized identity gives the identity back.
C29_EmbeddedIdentity ==
    /\ prov.kind = "marshalled" =>
          /\ DOMAIN tok.json = {SerializeToJSON(prov.id)[1]}
          /\ Cardinality(DOMAIN tok.json) = 1
          /\ tok.json[SerializeToJSON(prov.id)[1]] = SerializeToJSON(prov.id)[2]
    /\ res.kind = "unmarshalled" =>
          IF Cardinality(DOMAIN tok.json) # 1 \/ res.authDriver = None
          THEN res.out.err /\ res.out.id = NoIdentity
          ELSE \A typeName \in DOMAIN tok.json :
                  res.out = DeserializeUserIdentity(typeName, tok.json[typeName])
    /\ (/\ prov.kind = "marshalled"
        /\ res.kind = "unmarshalled"
        /\ res.authDriver # None) =>
          /\ ~res.out.err
          /\ res.out.id = prov.id

\* The identity of alice came back from its serialization
C29_Witness ==
    /\ prov.kind = "marshalled"
    /\ prov.id = [Driver |-> "keystone", UserName |-> "alice"]
    /\ tok.json = [typeName \in {"keystone"} |-> <<"payload", "alice">>]
    /\ res.kind = "unmarshalled"
    /\ res.authDriver = AuthDriver
    /\ res.out = [err |-> FALSE, id |-> [Driver |-> "keystone", UserName |-> "alice"]]

\* Objects with no key and with two keys were refused
C29_Refused(n) ==
    /\ res.kind = "unmarshalled"
    /\ res.authDriver = AuthDriver
    /\ Cardinality(DOMAIN tok.json) = n
    /\ res.out.err


(***************************************************************************)
(*                          MANIFEST INGEST                                *)
(***************************************************************************)

\* ---- registry error codes
ErrDigestInvalid == "DIGEST_INVALID"

ErrManifestBlobUnknown == "MANIFEST_BLOB_UNKNOWN"

ErrManifestInvalid == "MANIFEST_INVALID"

ErrDenied == "DENIED"

\* errors that are no RegistryV2Error: from json.Unmarshal, from the storage driver
InternalError == "internal error"

StorageError == "storage error"

\* an error of the database driver on an INSERT
DatabaseError == "database error"

\* what can go wrong with the infrastructure during one push: nothing, the
\* INSERT of the manifest row, the INSERT of the tag row, the storage write
TransactionFaults == {"", "manifest", "tag", "storage"}

\* ---- blobs: what sha256 gives for the contents that occur
\* (the last one is the manifest "bytes-m1" uploaded as a blob)
BlobDigests ==
    {"sha256:cfgfull", "sha256:cfgpart", "sha256:layer", "sha256:junk", "sha256:m1"}

\* What json.Unmarshal makes of a blob read as an image configuration
BlobJSON(blobDigest) ==
    CASE blobDigest = "sha256:cfgfull" ->
            [valid |-> TRUE, labels |-> {"maintainer", "version", "extra"}]
      [] blobDigest = "sha256:cfgpart" ->
            [valid |-> TRUE, labels |-> {"maintainer"}]
      [] OTHER -> [valid |-> FALSE, labels |-> {}]

BlobSize(blobDigest) ==
    CASE blobDigest = "sha256:cfgfull" -> 1102
      [] blobDigest = "sha256:cfgpart" -> 900
      [] blobDigest = "sha256:layer" -> 5000
      [] OTHER -> 7

\* ---- manifests: the byte strings that are pushed
ManifestBytes == {"bytes-m1", "bytes-m2", "bytes-m3", "bytes-l1", "bytes-bad"}

MediaTypeSchema2 == "application/vnd.docker.distribution.manifest.v2+json"

MediaTypeOCI == "application/vnd.oci.image.manifest.v1+json"

MediaTypeList == "application/vnd.docker.distribution.manifest.list.v2+json"

\* digest.FromBytes: different for different contents
DigestOf(contents) ==
    CASE contents = "bytes-m1" -> "sha256:m1"
      [] contents = "bytes-m2" -> "sha256:m2"
      [] contents = "bytes-m3" -> "sha256:m3"
      [] contents = "bytes-l1" -> "sha256:l1"
      [] contents = "bytes-l0" -> "sha256:l0"
      [] OTHER -> "sha256:bad"

ByteLength(contents) ==
    CASE contents = "bytes-m1" -> 265
      [] contents = "bytes-m2" -> 250
      [] contents = "bytes-m3" -> 240
      [] contents = "bytes-l1" -> 300
      [] contents = "bytes-l0" -> 120
      [] OTHER -> 12

BlobDescriptor(blobDigest) ==
    [Digest |-> blobDigest, Size |-> BlobSize(blobDigest), MediaType |-> "blob"]

ManifestDescriptor(mediaType, contents) ==
    [Digest |-> DigestOf(contents), Size |-> ByteLength(contents), MediaType |-> mediaType]

NoDescriptor == [Digest |-> "", Size |-> 0, MediaType |-> ""]

\* The media type a client declares for each of the byte strings
MediaTypeOf(contents) ==
    CASE contents \in {"bytes-m1", "bytes-bad"} -> MediaTypeSchema2
      [] contents \in {"bytes-m2", "bytes-m3"} -> MediaTypeOCI
      [] OTHER -> MediaTypeList

\* distribution.UnmarshalManifest: the parsed manifest and its descriptor
UnmarshalManifest(mediaType, contents) ==
    CASE contents = "bytes-m1" /\ mediaType = MediaTypeSchema2 ->
            [err |-> FALSE, desc |-> ManifestDescriptor(mediaType, contents),
             Config |-> BlobDescriptor("sha256:cfgfull"),
             Layers |-> <<BlobDescriptor("sha256:layer")>>, Manifests |-> <<>>]
      [] contents = "bytes-m2" /\ mediaType = MediaTypeOCI ->
            [err |-> FALSE, desc |-> ManifestDescriptor(mediaType, contents),
             Config |-> BlobDescriptor("sha256:cfgpart"),
             Layers |-> <<BlobDescriptor("sha256:layer")>>, Manifests |-> <<>>]
      [] contents = "bytes-m3" /\ mediaType = MediaTypeOCI ->
            [err |-> FALSE, desc |-> ManifestDescriptor(mediaType, contents),
             Config |-> BlobDescriptor("sha256:junk"),
             Layers |-> <<>>, Manifests |-> <<>>]
      [] contents = "bytes-l1" /\ mediaType = MediaTypeList ->
            [err |-> FALSE, desc |-> ManifestDescriptor(mediaType, contents),
             Config |-> NoDescriptor, Layers |-> <<>>,
             Manifests |-> <<ManifestDescriptor(MediaTypeSchema2, "bytes-m1")>>]
      [] contents = "bytes-l0" /\ mediaType = MediaTypeList ->
            [err |-> FALSE, desc |-> ManifestDescriptor(mediaType, contents),
             Config |-> NoDescriptor, Layers |-> <<>>, Manifests |-> <<>>]
      [] OTHER ->
            [err |-> TRUE, desc |-> NoDescriptor, Config |-> NoDescriptor,
             Layers |-> <<>>, Manifests |-> <<>>]

IsManifestList(manifest) == manifest.desc.MediaType = MediaTypeList

\* distribution.Manifest.References: config and layers of an image, the
\* constituent manifests of a list
References(manifest) ==
    IF IsManifestList(manifest) THEN manifest.Manifests
    ELSE <<manifest.Config>> \o manifest.Layers

\* ---- keppel.ManifestReference
TagNames == {"latest"}

TagReference(name) == [kind |-> "tag", Tag |-> name, Digest |-> ""]

DigestReference(d) == [kind |-> "digest", Tag |-> "", Digest |-> d]

IsDigest(reference) == reference.kind = "digest"

IsTag(reference) == reference.kind = "tag"

\* The references under which a client pushes the contents: a tag, the
\* digest of the contents, the digest of something else
ManifestReferences(contents) ==
    {TagReference(name) : name \in TagNames}
        \cup {DigestReference(d) : d \in {DigestOf(contents), "sha256:m1", "sha256:m2"}}

\* ---- database
RepoNames == {"foo", "bar"}

\* the repository that manifests are pushed to
PushRepoNames == {"foo"}

\* blobs that are also uploaded to the other repository
SharedBlobDigests == {"sha256:layer"}

ManifestQuota == 3

\* keppel.FindBlobByRepositoryID: the blob, if it is mounted in the repository
FindBlobByRepositoryID(mountRows, blobDigest, repoName) ==
    [repo |-> repoName, digest |-> blobDigest] \in mountRows

\* SELECT storage_id FROM blobs WHERE account_name = $1 AND digest = $2
\* ("" when there is no such row; the storage ID is named after the digest)
BlobStorageID(mountRows, blobDigest) ==
    IF \E row \in mountRows : row.digest = blobDigest THEN blobDigest ELSE ""

\* Processor.checkQuotaForManifestPush: would this push take the account's
\* manifest count above its quota?
QuotaExceeded(manifestRows, repoName, contents) ==
    /\ ~\E row \in manifestRows : row.repo = repoName /\ row.digest = DigestOf(contents)
    /\ Cardinality(manifestRows) + 1 > ManifestQuota

\* Manifest.InsertIfMissing: INSERT ... ON CONFLICT DO NOTHING
ManifestInsertIfMissing(manifestRows, row) ==
    IF \E old \in manifestRows : old.repo = row.repo /\ old.digest = row.digest
    THEN manifestRows
    ELSE manifestRows \cup {row}

\* Tag.InsertIfMissing: INSERT ... ON CONFLICT (repo_id, name) DO UPDATE
TagUpsert(tagRows, row) ==
    {old \in tagRows : ~(old.repo = row.repo /\ old.name = row.name)} \cup {row}

\* StorageDriver.WriteManifest
WriteManifest(objects, repoName, manifestDigest, contents) ==
    {o \in objects : ~(o.repo = repoName /\ o.digest = manifestDigest)}
        \cup {[repo |-> repoName, digest |-> manifestDigest, contents |-> contents]}


\* ---- Processor.ValidateAndStoreManifest
Accounts ==
    {[Name |-> "test1", UpstreamPeerHostName |-> "", ExternalPeerURL |-> "",
      RequiredLabels |-> <<>>],
     [Name |-> "test1", UpstreamPeerHostName |-> "", ExternalPeerURL |-> "",
      RequiredLabels |-> <<"maintainer", "version">>],
     [Name |-> "test1", UpstreamPeerHostName |-> PeerHostname, ExternalPeerURL |-> "",
      RequiredLabels |-> <<"maintainer", "version">>],
     [Name |-> "test1", UpstreamPeerHostName |-> "", ExternalPeerURL |-> ExternalPeerURL,
      RequiredLabels |-> <<"maintainer", "version">>]}

\* the times at which manifests are pushed
PushTimes == {1, 2}

IncomingManifests ==
    {[RepoName |-> repoName, Reference |-> reference,
      MediaType |-> MediaTypeOf(contents), Contents |-> contents,
      PushedAt |-> pushedAt] :
        repoName \in PushRepoNames, contents \in ManifestBytes,
        reference \in UNION {ManifestReferences(c) : c \in ManifestBytes},
        pushedAt \in PushTimes}

\* The outcome of a push: code "" is success
Outcome(db, code, detail, labels) ==
    [code |-> code, detail |-> detail, labels |-> labels, db |-> db]

DigestMismatch_mutNeverChecked(reference, desc) == FALSE

\* m.Reference.IsDigest() && manifestDesc.Digest != m.Reference.Digest
DigestMismatch(reference, desc) ==
    IsDigest(reference) /\ desc.Digest # reference.Digest

FirstMissingReference_mutConfigOnly(mountRows, refs, repoName) ==
    IF refs = <<>> \/ FindBlobByRepositoryID(mountRows, refs[1].Digest, repoName)
    THEN ""
    ELSE refs[1].Digest

\* The loop over manifest.References(): the digest of the first reference
\* that is no blob of the repository, "" if there is none
FirstMissingReference(mountRows, refs, repoName) ==
    LET missing == {i \in 1..Len(refs) :
                        ~FindBlobByRepositoryID(mountRows, refs[i].Digest, repoName)}
    IN  IF missing = {} THEN ""
        ELSE refs[CHOOSE i \in missing : \A j \in missing : i <= j].Digest

MissingLabels_mutAllRequired(labels, requiredLabels) ==
    IF \E i \in 1..Len(requiredLabels) : requiredLabels[i] \notin labels
    THEN requiredLabels
    ELSE <<>>

\* The loop over requiredLabels, in their order
MissingLabels(labels, requiredLabels) ==
    SelectSeq(requiredLabels, LAMBDA label : label \notin labels)

checkManifestHasRequiredLabels(mountRows, manifest, requiredLabels) ==
    IF IsManifestList(manifest)
    THEN [err |-> "", detail |-> "", missingLabels |-> <<>>]
    ELSE IF BlobStorageID(mountRows, manifest.Config.Digest) = ""
    THEN [err |-> ErrManifestBlobUnknown, detail |-> manifest.Config.Digest,
          missingLabels |-> <<>>]
    ELSE IF ~BlobJSON(manifest.Config.Digest).valid
    THEN [err |-> InternalError, detail |-> "", missingLabels |-> <<>>]
    ELSE [err |-> "", detail |-> "",
          missingLabels |-> MissingLabels(BlobJSON(manifest.Config.Digest).labels,
                                          requiredLabels)]

RECURSIVE SumSizes(_)
SumSizes(refs) ==
    IF refs = <<>> THEN 0 ELSE Head(refs).Size + SumSizes(Tail(refs))

SizeBytes_mutOwnLength(manifest) == manifest.desc.Size

\* sizeBytes: the manifest itself plus everything it refers to
SizeBytes(manifest) == manifest.desc.Size + SumSizes(References(manifest))

StoreTag_mutInsertOnly(tagRows, reference, repoName, manifestDigest) ==
    IF IsTag(reference)
          /\ ~\E old \in tagRows : old.repo = repoName /\ old.name = reference.Tag
    THEN tagRows \cup {[repo |-> repoName, name |-> reference.Tag,
                        digest |-> manifestDigest]}
    ELSE tagRows

\* if m.Reference.IsTag() { keppel.Tag{...}.InsertIfMissing(tx) }
StoreTag(tagRows, reference, repoName, manifestDigest) ==
    IF IsTag(reference)
    THEN TagUpsert(tagRows, [repo |-> repoName, name |-> reference.Tag,
                             digest |-> manifestDigest])
    ELSE tagRows

StoreManifest_mutPlainInsert(manifestRows, repoName, manifest, pushedAt) ==
    manifestRows \cup
        {[repo |-> repoName, digest |-> manifest.desc.Digest,
          mediaType |-> manifest.desc.MediaType, sizeBytes |-> SizeBytes(manifest),
          pushedAt |-> pushedAt, validatedAt |-> pushedAt]}

\* dbManifest = &keppel.Manifest{...}; dbManifest.InsertIfMissing(tx)
StoreManifest(manifestRows, repoName, manifest, pushedAt) ==
    ManifestInsertIfMissing(manifestRows,
        [repo |-> repoName, digest |-> manifest.desc.Digest,
         mediaType |-> manifest.desc.MediaType, sizeBytes |-> SizeBytes(manifest),
         pushedAt |-> pushedAt, validatedAt |-> pushedAt])

\* The function run inside the transaction: the outcome carries the database
\* as the transaction has written it when the function returns.
\* fault: which of the three writes returns an error, if any.
InsideTransaction(db, acct, m, manifest, fault) ==
    LET missing == FirstMissingReference(db.mounts, References(manifest), m.RepoName)
        check == checkManifestHasRequiredLabels(db.mounts, manifest, acct.RequiredLabels)
        withManifest ==
            [db EXCEPT !.manifests = StoreManifest(@, m.RepoName, manifest, m.PushedAt)]
        withTag ==
            [withManifest EXCEPT
                !.tags = StoreTag(@, m.Reference, m.RepoName, manifest.desc.Digest)]
    IN  IF acct.UpstreamPeerHostName = "" /\ missing # ""
        THEN Outcome(db, ErrManifestBlobUnknown, missing, <<>>)
        ELSE IF acct.UpstreamPeerHostName = "" /\ acct.RequiredLabels # <<>>
                    /\ check.err # ""
        THEN Outcome(db, check.err, check.detail, <<>>)
        ELSE IF acct.UpstreamPeerHostName = "" /\ acct.RequiredLabels # <<>>
                    /\ Len(check.missingLabels) > 0
        THEN Outcome(db, ErrManifestInvalid, "missing required labels", check.missingLabels)
        ELSE IF fault = "manifest"
        THEN Outcome(db, DatabaseError, "", <<>>)
        ELSE IF fault = "tag" /\ IsTag(m.Reference)
        THEN Outcome(withManifest, DatabaseError, "", <<>>)
        ELSE IF fault = "storage"
        THEN Outcome(withTag, StorageError, "", <<>>)
        ELSE Outcome([withTag EXCEPT
                        !.storage = WriteManifest(@, m.RepoName, manifest.desc.Digest,
                                                  m.Contents)],
                     "", "", <<>>)

insideTransaction_mutNoRollback(db, out) == out

\* Processor.insideTransaction: commit when the function returns no error,
\* roll the tables back to where they were when it returns one (the storage
\* driver takes no part in the transaction)
insideTransaction(db, out) ==
    IF out.code = ""
    THEN out
    ELSE [out EXCEPT !.db = [@ EXCEPT !.manifests = db.manifests, !.tags = db.tags]]

\* the repository row (created before the transaction) stays
ValidateAndStoreManifest(db, acct, m, fault) ==
    IF QuotaExceeded(db.manifests, m.RepoName, m.Contents)
    THEN Outcome(db, ErrDenied, "", <<>>)
    ELSE LET db1 == [db EXCEPT !.repos = @ \cup {m.RepoName}]
             manifest == UnmarshalManifest(m.MediaType, m.Contents)
         IN  IF manifest.err
             THEN Outcome(db1, ErrManifestInvalid, "", <<>>)
             ELSE IF DigestMismatch(m.Reference, manifest.desc)
             THEN Outcome(db1, ErrDigestInvalid, manifest.desc.Digest, <<>>)
             ELSE insideTransaction(db1, InsideTransaction(db1, acct, m, manifest, fault))


\* ---- the registry as a state machine: blobs are uploaded, manifests are
\* ---- pushed and deleted
Database ==
    [repos |-> repos, mounts |-> mounts, manifests |-> manifests, tags |-> tags,
     storage |-> storage]

\* The digest that a tag reference pointed to, "" if it did not exist
TagDigest(tagRows, repoName, reference) ==
    IF IsTag(reference)
          /\ \E row \in tagRows : row.repo = repoName /\ row.name = reference.Tag
    THEN (CHOOSE row \in tagRows : row.repo = repoName /\ row.name = reference.Tag).digest
    ELSE ""

\* DELETE FROM manifests WHERE repo_id = $1 AND digest = $2: refused while
\* another manifest refers to this one; takes the tags that point to it and
\* its own references with it
CanDeleteManifestRow(refRows, repoName, manifestDigest) ==
    ~\E ref \in refRows : ref.repo = repoName /\ ref.child = manifestDigest

DeleteManifestRow(db, repoName, manifestDigest) ==
    [db EXCEPT
        !.manifests = {row \in @ : ~(row.repo = repoName /\ row.digest = manifestDigest)},
        !.tags = {row \in @ : ~(row.repo = repoName /\ row.digest = manifestDigest)}]

DeleteReferenceRows(refRows, repoName, manifestDigest) ==
    {ref \in refRows : ~(ref.repo = repoName /\ ref.parent = manifestDigest)}

\* a row of manifest_blob_refs
BlobReferenceRow(repoName, manifestDigest, blobDigest) ==
    [repo |-> repoName, digest |-> manifestDigest, blob |-> blobDigest]

\* the manifest_blob_refs rows of a manifest go with it as well
DeleteBlobReferenceRows(blobRefRows, repoName, manifestDigest) ==
    {ref \in blobRefRows : ~(ref.repo = repoName /\ ref.digest = manifestDigest)}

\* StorageDriver.DeleteManifest
DeleteManifest(objects, repoName, manifestDigest) ==
    {o \in objects : ~(o.repo = repoName /\ o.digest = manifestDigest)}

InitIngest ==
    /\ account \in Accounts
    /\ repos = {"bar"}
    /\ mounts = {[repo |-> "bar", digest |-> blobDigest] : blobDigest \in SharedBlobDigests}
    /\ manifests = {}
    /\ tags = {}
    /\ mrefs = {}
    /\ brefs = {}
    /\ storage = {}
    /\ lastPush = NoPush
    /\ cfg = [APIPublicHostname |-> LocalHostname,
              AnycastAPIPublicHostname |-> AnycastHostname,
              JWTIssuerKeys |-> <<"K1">>, AnycastJWTIssuerKeys |-> <<>>]
    /\ tok = NoToken
    /\ prov = NoProvenance
    /\ res = NoResult
    /\ session = NoSession
    /\ registry = NoRegistry
    /\ upstream = {}
    /\ sweep = IdleSweep
    /\ now = 0
    /\ sched = NullTime
    /\ ret = NoReturn
    /\ job = NoJob
    /\ blobs = {}
    /\ requests = NoRequests
    /\ applied = NoCall

\* A blob upload is finalized: the blob exists and is mounted in the repository
\* (only a primary account takes uploads)
UploadBlob(repoName, blobDigest) ==
    /\ account.UpstreamPeerHostName = ""
    /\ account.ExternalPeerURL = ""
    /\ [repo |-> repoName, digest |-> blobDigest] \notin mounts
    /\ mounts' = mounts \cup {[repo |-> repoName, digest |-> blobDigest]}
    /\ repos' = repos \cup {repoName}
    /\ lastPush' = NoPush
    /\ UNCHANGED <<account, manifests, tags, mrefs, brefs, storage, tokenVars, clientVars, syncVars>>

\* One call of ValidateAndStoreManifest
\* (again: the step before was a successful push of the same contents to
\* the same repository and reference; previous: what the tag pointed to)
Push(m, fault) ==
    /\ m.Reference \in ManifestReferences(m.Contents)
    /\ \E out \in {ValidateAndStoreManifest(Database, account, m, fault)} :
        /\ repos' = out.db.repos
        /\ mounts' = out.db.mounts
        /\ manifests' = out.db.manifests
        /\ tags' = out.db.tags
        /\ storage' = out.db.storage
        /\ lastPush' = [kind |-> "push", repo |-> m.RepoName,
                        reference |-> m.Reference, contents |-> m.Contents,
                        code |-> out.code, detail |-> out.detail,
                        labels |-> out.labels,
                        previous |-> TagDigest(tags, m.RepoName, m.Reference),
                        again |-> /\ lastPush.kind = "push"
                                  /\ lastPush.code = ""
                                  /\ lastPush.repo = m.RepoName
                                  /\ lastPush.reference = m.Reference
                                  /\ lastPush.contents = m.Contents]
        /\ UNCHANGED <<account, mrefs, brefs, tokenVars, clientVars, syncVars>>

\* A manifest is deleted: its row, then its storage object
RemoveManifest(repoName, manifestDigest) ==
    /\ \E row \in manifests : row.repo = repoName /\ row.digest = manifestDigest
    /\ CanDeleteManifestRow(mrefs, repoName, manifestDigest)
    /\ LET db == DeleteManifestRow(Database, repoName, manifestDigest)
       IN  /\ manifests' = db.manifests
           /\ tags' = db.tags
    /\ mrefs' = DeleteReferenceRows(mrefs, repoName, manifestDigest)
    /\ brefs' = DeleteBlobReferenceRows(brefs, repoName, manifestDigest)
    /\ storage' = DeleteManifest(storage, repoName, manifestDigest)
    /\ lastPush' = NoPush
    /\ UNCHANGED <<account, repos, mounts, tokenVars, clientVars, syncVars>>

NextIngest ==
    \/ \E repoName \in PushRepoNames, blobDigest \in BlobDigests :
            UploadBlob(repoName, blobDigest)
    \/ \E m \in IncomingManifests, fault \in TransactionFaults : Push(m, fault)
    \/ \E repoName \in PushRepoNames, contents \in ManifestBytes :
            RemoveManifest(repoName, DigestOf(contents))

SpecIngest == InitIngest /\ [][NextIngest]_vars


(***************************************************************************)
(* Claims about manifest ingest.  They are stated over one step of the    *)
(* registry: the unprimed variables are the database before the push,     *)
(* lastPush' is the push that the step made and its outcome.               *)
(***************************************************************************)

PushMade == lastPush'.kind = "push"

Pushed == UnmarshalManifest(MediaTypeOf(lastPush'.contents), lastPush'.contents)

\* The references of the pushed manifest that are no blob of the target
\* repository before the push, as positions in the reference list
MissingPositions ==
    {i \in 1..Len(References(Pushed)) :
        [repo |-> lastPush'.repo, digest |-> References(Pushed)[i].Digest] \notin mounts}

\* The push gets as far as the transaction: quota, parsing and digest are fine
ReachesTransaction ==
    /\ ~QuotaExceeded(manifests, lastPush'.repo, lastPush'.contents)
    /\ ~Pushed.err
    /\ IsDigest(lastPush'.reference) =>
            lastPush'.reference.Digest = DigestOf(lastPush'.contents)

NothingStored ==
    /\ manifests' = manifests
    /\ tags' = tags
    /\ storage' = storage

\* C5: in a non-replica account a push succeeds only if every reference of
\* the manifest is a blob of the target repository; a push that gets past
\* quota, parsing and digest check with a reference missing fails with
\* MANIFEST_BLOB_UNKNOWN, the detail is the digest of the (first) missing
\* reference, and no manifest row, tag row or storage object is created.
C5_BlobBeforeManifest ==
    [][(PushMade /\ account.UpstreamPeerHostName = "") =>
          /\ lastPush'.code = "" => (~Pushed.err /\ MissingPositions = {})
          /\ (ReachesTransaction /\ MissingPositions # {}) =>
                /\ lastPush'.code = ErrManifestBlobUnknown
                /\ \E i \in MissingPositions :
                      /\ \A j \in MissingPositions : i <= j
                      /\ lastPush'.detail = References(Pushed)[i].Digest
                /\ NothingStored]_vars

\* A push failed for the layer, which is a blob of the other repository
\* only, while the config blob (the first reference) is there
C5_Witness ==
    /\ lastPush.kind = "push"
    /\ account.UpstreamPeerHostName = ""
    /\ lastPush.contents = "bytes-m1"
    /\ lastPush.code = ErrManifestBlobUnknown
    /\ lastPush.detail = "sha256:layer"
    /\ [repo |-> "foo", digest |-> "sha256:cfgfull"] \in mounts
    /\ [repo |-> "bar", digest |-> "sha256:layer"] \in mounts
    /\ [repo |-> "foo", digest |-> "sha256:layer"] \notin mounts

\* C6: a push by digest, of contents that parse and within quota, fails with
\* DIGEST_INVALID when the digest is not that of the contents, whatever the
\* account and the blobs are (the check comes before the transaction), and
\* stores nothing; when the digest is that of the contents, the push does
\* not fail with DIGEST_INVALID.
C6_DigestCheck ==
    [][(/\ PushMade
        /\ IsDigest(lastPush'.reference)
        /\ ~QuotaExceeded(manifests, lastPush'.repo, lastPush'.contents)
        /\ ~Pushed.err) =>
          IF lastPush'.reference.Digest # DigestOf(lastPush'.contents)
          THEN /\ lastPush'.code = ErrDigestInvalid
               /\ lastPush'.detail = DigestOf(lastPush'.contents)
               /\ NothingStored
          ELSE lastPush'.code # ErrDigestInvalid]_vars

\* A push under the wrong digest was refused with DIGEST_INVALID although
\* its blobs are missing as well
C6_Witness ==
    /\ lastPush.kind = "push"
    /\ lastPush.contents = "bytes-m1"
    /\ lastPush.reference = DigestReference("sha256:m2")
    /\ lastPush.code = ErrDigestInvalid
    /\ account.UpstreamPeerHostName = ""
    /\ [repo |-> "foo", digest |-> "sha256:cfgfull"] \notin mounts

\* I3: every tag points to a manifest of its repository
TagPointsSomewhere ==
    \A tag \in tags :
        \E row \in manifests : row.repo = tag.repo /\ row.digest = tag.digest

OneRowPerTag ==
    \A t1 \in tags, t2 \in tags :
        (t1.repo = t2.repo /\ t1.name = t2.name) => t1 = t2

\* C7: after a successful push by tag the tag's row exists with the digest
\* of the pushed manifest, also when the tag pointed elsewhere before; the
\* step changes no other tag row, and in every state a tag has one row
\* (the old or the new digest) that points to a manifest of its repository.
C7_TagUpdate ==
    /\ [](TagPointsSomewhere /\ OneRowPerTag)
    /\ [][(PushMade /\ lastPush'.code = "" /\ IsTag(lastPush'.reference)) =>
            /\ [repo |-> lastPush'.repo, name |-> lastPush'.reference.Tag,
                digest |-> DigestOf(lastPush'.contents)] \in tags'
            /\ \A row \in tags' :
                  (row.repo = lastPush'.repo /\ row.name = lastPush'.reference.Tag)
                      => row.digest = DigestOf(lastPush'.contents)
            /\ \A row \in tags \cup tags' :
                  ~(row.repo = lastPush'.repo /\ row.name = lastPush'.reference.Tag)
                      => (row \in tags /\ row \in tags')]_vars

\* A tag that pointed to another manifest was moved by a push
C7_Witness ==
    /\ lastPush.kind = "push"
    /\ lastPush.code = ""
    /\ IsTag(lastPush.reference)
    /\ lastPush.previous \notin {"", DigestOf(lastPush.contents)}
    /\ [repo |-> lastPush.repo, name |-> lastPush.reference.Tag,
        digest |-> DigestOf(lastPush.contents)] \in tags

LackingLabels ==
    {account.RequiredLabels[i] : i \in 1..Len(account.RequiredLabels)}
        \ BlobJSON(Pushed.Config.Digest).labels

\* C9: in a non-replica account with required labels, a push that gets as
\* far as the label check (all references are blobs of the repository)
\* fails with MANIFEST_INVALID naming exactly the lacking labels when the
\* manifest is an image whose config blob (a JSON document) lacks a label,
\* passes the check when it lacks none, and is never refused with
\* MANIFEST_INVALID when the manifest is a manifest list.
C9_RequiredLabels ==
    [][(/\ PushMade
        /\ account.UpstreamPeerHostName = ""
        /\ account.RequiredLabels # <<>>
        /\ ReachesTransaction
        /\ MissingPositions = {}) =>
          IF IsManifestList(Pushed)
          THEN lastPush'.code \in {"", DatabaseError, StorageError}
          ELSE BlobJSON(Pushed.Config.Digest).valid =>
                IF LackingLabels # {}
                THEN /\ lastPush'.code = ErrManifestInvalid
                     /\ Range(lastPush'.labels) = LackingLabels
                     /\ Len(lastPush'.labels) = Cardinality(LackingLabels)
                     /\ NothingStored
                ELSE lastPush'.code \in {"", DatabaseError, StorageError}]_vars

\* An image whose config has one of the two required labels was refused,
\* and the refusal names the other one
C9_Witness ==
    /\ lastPush.kind = "push"
    /\ account.RequiredLabels = <<"maintainer", "version">>
    /\ lastPush.contents = "bytes-m2"
    /\ lastPush.code = ErrManifestInvalid
    /\ lastPush.labels = <<"version">>

\* C23: a push into a replica account (upstream peer hostname or external
\* peer URL set) that gets past quota, parsing and digest check is refused
\* neither for a referenced blob that is not there nor for lacking labels:
\* it stores the manifest, unless database or storage driver fail.
C23_ReplicaSkipsChecks ==
    [][(/\ PushMade
        /\ account.UpstreamPeerHostName # "" \/ account.ExternalPeerURL # ""
        /\ ReachesTransaction) =>
          /\ lastPush'.code \in {"", DatabaseError, StorageError}
          /\ lastPush'.code = "" =>
                \E row \in manifests' :
                    /\ row.repo = lastPush'.repo
                    /\ row.digest = DigestOf(lastPush'.contents)]_vars

\* C24: after every successful push the database holds a manifest_blob_refs
\* row for each blob that the stored image refers to and a
\* manifest_manifest_refs row for each child of the stored manifest list;
\* every manifest_manifest_refs child is a manifest row of the same
\* repository; and in a non-replica account a manifest list is accepted
\* only if all its children are manifests of the repository already.
C24_ReferenceEdges ==
    [][(PushMade /\ lastPush'.code = "") =>
          /\ ~IsManifestList(Pushed) =>
                \A i \in 1..Len(References(Pushed)) :
                    BlobReferenceRow(lastPush'.repo, Pushed.desc.Digest,
                                     References(Pushed)[i].Digest) \in brefs'
          /\ IsManifestList(Pushed) =>
                \A i \in 1..Len(References(Pushed)) :
                    [repo |-> lastPush'.repo, parent |-> Pushed.desc.Digest,
                     child |-> References(Pushed)[i].Digest] \in mrefs'
          /\ \A ref \in mrefs' :
                \E row \in manifests' :
                    row.repo = ref.repo /\ row.digest = ref.child
          /\ (/\ IsManifestList(Pushed)
              /\ account.UpstreamPeerHostName = ""
              /\ account.ExternalPeerURL = "") =>
                \A i \in 1..Len(References(Pushed)) :
                    \E row \in manifests :
                        /\ row.repo = lastPush'.repo
                        /\ row.digest = References(Pushed)[i].Digest]_vars


\* The manifest row, the tag row (for a push by tag) and the storage object
\* of the push that the step made are all there
AllOfPushStored ==
    /\ \E row \in manifests' :
          row.repo = lastPush'.repo /\ row.digest = DigestOf(lastPush'.contents)
    /\ IsTag(lastPush'.reference) =>
          [repo |-> lastPush'.repo, name |-> lastPush'.reference.Tag,
           digest |-> DigestOf(lastPush'.contents)] \in tags'
    /\ [repo |-> lastPush'.repo, digest |-> DigestOf(lastPush'.contents),
        contents |-> lastPush'.contents] \in storage'

\* C25: a push that gets as far as the transaction either succeeds, and then
\* its manifest row, its tag row and its storage object are all there, or
\* returns an error (blob missing, labels missing, database error, storage
\* write failed), and then the manifest rows and the tag rows are those from
\* before the push; the storage write comes last, so that no error leaves an
\* object written.
C25_AtomicIngest ==
    [][(PushMade /\ ReachesTransaction) =>
          IF lastPush'.code = ""
          THEN AllOfPushStored
          ELSE /\ lastPush'.code \in {ErrManifestBlobUnknown, ErrManifestInvalid,
                                      InternalError, DatabaseError, StorageError}
               /\ NothingStored]_vars

\* The storage write of a push by tag of a manifest that was not there
\* failed, after the manifest and the tag were written in the transaction:
\* neither the manifest nor the tag is there
C25_Witness ==
    /\ lastPush.kind = "push"
    /\ lastPush.code = StorageError
    /\ IsTag(lastPush.reference)
    /\ lastPush.contents = "bytes-m1"
    /\ ~\E row \in manifests : row.digest = "sha256:m1"
    /\ tags = {}
    /\ storage = {}


\* ---- the sizes of stored manifests: pushes into a repository that has
\* ---- every blob, of images, of a manifest list and of an empty manifest list
SizedManifestBytes == {"bytes-m1", "bytes-m2", "bytes-m3", "bytes-l1", "bytes-l0"}

SizedManifests ==
    {[RepoName |-> repoName, Reference |-> reference,
      MediaType |-> MediaTypeOf(contents), Contents |-> contents,
      PushedAt |-> pushedAt] :
        repoName \in PushRepoNames, contents \in SizedManifestBytes,
        reference \in {TagReference(name) : name \in TagNames}
                        \cup {DigestReference(DigestOf(c)) : c \in SizedManifestBytes},
        pushedAt \in PushTimes}

InitSizes ==
    /\ account \in Accounts
    /\ repos = PushRepoNames
    /\ mounts = {[repo |-> repoName, digest |-> blobDigest] :
                    repoName \in PushRepoNames, blobDigest \in BlobDigests}
    /\ manifests = {}
    /\ tags = {}
    /\ mrefs = {}
    /\ brefs = {}
    /\ storage = {}
    /\ lastPush = NoPush
    /\ cfg = [APIPublicHostname |-> LocalHostname,
              AnycastAPIPublicHostname |-> AnycastHostname,
              JWTIssuerKeys |-> <<"K1">>, AnycastJWTIssuerKeys |-> <<>>]
    /\ tok = NoToken
    /\ prov = NoProvenance
    /\ res = NoResult
    /\ session = NoSession
    /\ registry = NoRegistry
    /\ upstream = {}
    /\ sweep = IdleSweep
    /\ now = 0
    /\ sched = NullTime
    /\ ret = NoReturn
    /\ job = NoJob
    /\ blobs = {}
    /\ requests = NoRequests
    /\ applied = NoCall

NextSizes ==
    \/ \E m \in SizedManifests, fault \in TransactionFaults : Push(m, fault)
    \/ \E repoName \in PushRepoNames, contents \in SizedManifestBytes :
            RemoveManifest(repoName, DigestOf(contents))

SpecSizes == InitSizes /\ [][NextSizes]_vars

\* the declared sizes of the first n references, added up from the last one
RECURSIVE DeclaredSizes(_, _)
DeclaredSizes(refs, n) ==
    IF n = 0 THEN 0 ELSE DeclaredSizes(refs, n - 1) + refs[n].Size

\* C26: the size_bytes of every manifest row is the byte length of the
\* manifest's contents plus the declared sizes of all its direct references
\* (config and layers of an image, children of a list), and is the byte
\* length alone when the manifest refers to nothing.
C26_SizeTotals ==
    \A row \in manifests :
        \E contents \in SizedManifestBytes :
            LET refs == References(UnmarshalManifest(MediaTypeOf(contents), contents))
            IN  /\ row.digest = DigestOf(contents)
                /\ row.sizeBytes = ByteLength(contents) + DeclaredSizes(refs, Len(refs))
                /\ refs = <<>> => row.sizeBytes = ByteLength(contents)

\* An image with config and layer, a list with one child and a list without
\* children are stored
C26_Witness ==
    /\ lastPush.kind = "push"
    /\ lastPush.code = ""
    /\ \E row \in manifests : row.digest = "sha256:m1" /\ row.sizeBytes = 265 + 1102 + 5000
    /\ \E row \in manifests : row.digest = "sha256:l1" /\ row.sizeBytes = 300 + 265
    /\ \E row \in manifests : row.digest = "sha256:l0" /\ row.sizeBytes = 120


(***************************************************************************)
(*                     REPLICA MANIFEST SYNC SWEEP                         *)
(***************************************************************************)

\* the manifests of the replica repository when the sweep starts
SyncDigests == {"sha256:l1", "sha256:m1", "sha256:m2"}

SyncRepoName == "foo"

ManifestRow(repoName, manifestDigest) ==
    [repo |-> repoName, digest |-> manifestDigest, mediaType |-> MediaTypeOCI,
     sizeBytes |-> 300, pushedAt |-> 1, validatedAt |-> 1]

ReferenceRow(repoName, parentDigest, childDigest) ==
    [repo |-> repoName, parent |-> parentDigest, child |-> childDigest]

\* all sets of manifest_manifest_refs rows between different manifests
ReferenceGraphs ==
    SUBSET {ReferenceRow(SyncRepoName, pair[1], pair[2]) :
                pair \in {pc \in SyncDigests \X SyncDigests : pc[1] # pc[2]}}

\* Processor.CheckManifestOnPrimary
CheckManifestOnPrimary(onPrimary, manifestDigest) == manifestDigest \in onPrimary

ShallDeleteManifest_mutFirstOnly(manifestRows, repoName, onPrimary) ==
    LET gone == {row.digest : row \in {r \in manifestRows :
                                /\ r.repo = repoName
                                /\ ~CheckManifestOnPrimary(onPrimary, r.digest)}}
    IN  IF gone = {} THEN {} ELSE {CHOOSE d \in gone : TRUE}

\* for _, manifest := range manifests { if !exists { shallDeleteManifest[...] = true } }
ShallDeleteManifest(manifestRows, repoName, onPrimary) ==
    {row.digest : row \in {r \in manifestRows :
                              /\ r.repo = repoName
                              /\ ~CheckManifestOnPrimary(onPrimary, r.digest)}}

ParentDigestsOf_mutOverwrite(refRows, repoName) ==
    [childDigest \in SyncDigests |->
        LET parents == {ref.parent : ref \in {r \in refRows :
                                        r.repo = repoName /\ r.child = childDigest}}
        IN  IF parents = {} THEN {} ELSE {CHOOSE parentDigest \in parents : TRUE}]

\* parentDigestsOf[childDigest] = append(parentDigestsOf[childDigest], parentDigest)
ParentDigestsOf(refRows, repoName) ==
    [childDigest \in SyncDigests |->
        {ref.parent : ref \in {r \in refRows :
                                  r.repo = repoName /\ r.child = childDigest}}]

ParentsWereDeleted_mutAnyParent(parentDigests, manifestWasDeleted) ==
    parentDigests = {} \/ \E parentDigest \in parentDigests :
                              parentDigest \in manifestWasDeleted

\* for _, parentDigest := range parentDigestsOf[digest] {
\*     if !manifestWasDeleted[parentDigest] { continue MANIFEST } }
ParentsWereDeleted(parentDigests, manifestWasDeleted) ==
    \A parentDigest \in parentDigests : parentDigest \in manifestWasDeleted

\* The sweep's local variables.  pending: the keys that the running
\* "for digest := range shallDeleteManifest" has not come to yet (Go visits
\* the keys of a map in any order); log: the digests in the order in which
\* their rows were deleted; shallDelete0, refs0: the deletion set and the
\* reference rows as the sweep read them; undeleted: the digests that the
\* error for a sweep that cannot go on names; run: the number of this call
\* of SyncManifestsInNextRepo; previous: what the call before it returned;
\* upstreamChanges: how often the primary has changed since the first call
\* began.
SweepAt(pc, shall, parents, wasDeleted, pending, deletedSomething, digest, log, err, shall0, refs0) ==
    [pc |-> pc, shallDeleteManifest |-> shall, parentDigestsOf |-> parents,
     manifestWasDeleted |-> wasDeleted, pending |-> pending,
     deletedSomething |-> deletedSomething, digest |-> digest, log |-> log,
     err |-> err, shallDelete0 |-> shall0, refs0 |-> refs0, undeleted |-> {},
     run |-> sweep.run, upstreamChanges |-> sweep.upstreamChanges,
     previous |-> sweep.previous]

NotStarted ==
    [pc |-> "idle", shallDeleteManifest |-> {},
     parentDigestsOf |-> [d \in SyncDigests |-> {}], manifestWasDeleted |-> {},
     pending |-> {}, deletedSomething |-> FALSE, digest |-> "", log |-> <<>>,
     err |-> "", shallDelete0 |-> {}, refs0 |-> {}, undeleted |-> {},
     run |-> 1, upstreamChanges |-> 0, previous |-> "none"]

Moved(pc, err) == [sweep EXCEPT !.pc = pc, !.err = err]

MaxRuns == 2

MaxUpstreamChanges == 1

SyncInterval == 60

ErrNoRows == "sql: no rows in result set"

\* the contents with a digest
ContentsOf(manifestDigest) ==
    CHOOSE contents \in ManifestBytes : DigestOf(contents) = manifestDigest

Returned(call, err) ==
    [kind |-> "returned", call |-> call, err |-> err,
     wrapped |-> err \notin {"", ErrNoRows}]

\* WHERE (r.next_manifest_sync_at IS NULL OR r.next_manifest_sync_at < $1)
SyncEligible(nextManifestSyncAt, t) ==
    nextManifestSyncAt.null \/ nextManifestSyncAt.at < t

NextManifestSyncAt_mutAtOnce(t) == TimeAt(t)

\* j.timeNow().Add(1*time.Hour)
NextManifestSyncAt(t) == TimeAt(t + SyncInterval)

InitSync ==
    /\ account \in {[Name |-> "test1", UpstreamPeerHostName |-> PeerHostname,
                     RequiredLabels |-> <<>>, InMaintenance |-> inMaintenance] :
                        inMaintenance \in BOOLEAN}
    /\ repos = {SyncRepoName}
    /\ mounts = {}
    /\ manifests = {ManifestRow(SyncRepoName, d) : d \in SyncDigests}
    /\ tags = {[repo |-> SyncRepoName, name |-> "latest", digest |-> "sha256:l1"]}
    /\ mrefs \in ReferenceGraphs
    /\ brefs = {}
    /\ storage = {[repo |-> SyncRepoName, digest |-> d, contents |-> ContentsOf(d)] :
                    d \in SyncDigests}
    /\ lastPush = NoPush
    /\ upstream \in SUBSET SyncDigests
    /\ sweep = NotStarted
    /\ now = 0
    /\ sched = NullTime
    /\ ret = NoReturn
    /\ job = NoJob
    /\ blobs = {}
    /\ requests = NoRequests
    /\ applied = NoCall
    /\ cfg = [APIPublicHostname |-> LocalHostname,
              AnycastAPIPublicHostname |-> AnycastHostname,
              JWTIssuerKeys |-> <<"K1">>, AnycastJWTIssuerKeys |-> <<>>]
    /\ tok = NoToken
    /\ prov = NoProvenance
    /\ res = NoResult
    /\ session = NoSession
    /\ registry = NoRegistry

\* SyncManifestsInNextRepo up to the deletion loop: find the repository (or
\* return sql.ErrNoRows), skip an account in maintenance, else list the
\* manifests, ask the primary about each, read the references (probeFails:
\* the primary cannot be asked; doneFails: the UPDATE of the schedule of a
\* repository in maintenance returns an error)
StartSync(probeFails, doneFails) ==
    /\ sweep.pc = "idle"
    /\ sweep.run <= MaxRuns
    /\ IF ~SyncEligible(sched, now)
       THEN /\ ret' = Returned("SyncManifestsInNextRepo", ErrNoRows)
            /\ UNCHANGED <<sweep, sched>>
       ELSE IF account.InMaintenance
       THEN /\ IF doneFails
               THEN /\ ret' = Returned("SyncManifestsInNextRepo", "cannot update repos")
                    /\ UNCHANGED sched
               ELSE /\ ret' = Returned("SyncManifestsInNextRepo", "")
                    /\ sched' = NextManifestSyncAt(now)
            /\ sweep' = [sweep EXCEPT !.run = @ + 1, !.previous = "skipped"]
       ELSE /\ LET shall == ShallDeleteManifest(manifests, SyncRepoName, upstream)
               IN  sweep' =
                     IF probeFails /\ manifests # {}
                     THEN Moved("failed", "cannot check existence of manifest")
                     ELSE SweepAt(IF shall = {} THEN "done" ELSE "range", shall,
                                  ParentDigestsOf(mrefs, SyncRepoName), {}, shall,
                                  FALSE, "", <<>>, "", shall, mrefs)
            /\ UNCHANGED <<sched, ret>>
    /\ UNCHANGED <<dbVars, lastPush, upstream, now, job, applied, replicaVars, tokenVars, clientVars>>

\* One turn of the inner loop up to the DELETE: the manifest is passed over
\* while a parent is left, else its row is deleted (dbFails: the DELETE
\* returns an error)
VisitManifest(digest, dbFails) ==
    /\ sweep.pc = "range"
    /\ digest \in sweep.pending
    /\ IF ~ParentsWereDeleted(sweep.parentDigestsOf[digest], sweep.manifestWasDeleted)
       THEN /\ sweep' = [sweep EXCEPT !.pending = @ \ {digest}]
            /\ UNCHANGED dbVars
       ELSE IF dbFails
       THEN /\ sweep' = Moved("failed", "cannot remove deleted manifest from DB")
            /\ UNCHANGED dbVars
       ELSE /\ sweep' = [sweep EXCEPT !.pc = "storage", !.digest = digest,
                                      !.pending = @ \ {digest},
                                      !.log = Append(@, digest)]
            /\ LET db == DeleteManifestRow(Database, SyncRepoName, digest)
               IN  /\ manifests' = db.manifests
                   /\ tags' = db.tags
            /\ mrefs' = DeleteReferenceRows(mrefs, SyncRepoName, digest)
            /\ brefs' = DeleteBlobReferenceRows(brefs, SyncRepoName, digest)
            /\ UNCHANGED <<account, repos, mounts, storage>>
    /\ UNCHANGED <<lastPush, upstream, janitorVars, tokenVars, clientVars>>

\* The rest of the turn: the storage object is deleted and the manifest is
\* taken from the work queue (sdFails: the storage driver returns an error)
DeleteFromStorage(sdFails) ==
    /\ sweep.pc = "storage"
    /\ IF sdFails
       THEN /\ sweep' = Moved("failed", "cannot remove deleted manifest from storage")
            /\ UNCHANGED storage
       ELSE /\ sweep' = [sweep EXCEPT !.pc = "range", !.digest = "",
                                      !.shallDeleteManifest = @ \ {sweep.digest},
                                      !.manifestWasDeleted = @ \cup {sweep.digest},
                                      !.deletedSomething = TRUE]
            /\ storage' = DeleteManifest(storage, SyncRepoName, sweep.digest)
    /\ UNCHANGED <<account, repos, mounts, manifests, tags, mrefs, brefs, lastPush,
                   upstream, janitorVars, tokenVars, clientVars>>

StillReferenced == "cannot remove deleted manifests: still being referenced"

UndeletedDigests_mutNone(shall) == {}

\* undeletedDigests: the keys left in shallDeleteManifest
UndeletedDigests(shall) == shall

\* the outer loop without lines 266-273
EndOfRange_mutNoProgressCheck ==
    /\ sweep.pc = "range"
    /\ sweep.pending = {}
    /\ sweep' =
         IF sweep.shallDeleteManifest = {}
         THEN Moved("done", "")
         ELSE [sweep EXCEPT !.pending = sweep.shallDeleteManifest,
                            !.deletedSomething = FALSE]
    /\ UNCHANGED <<dbVars, lastPush, upstream, janitorVars, tokenVars, clientVars>>

\* The inner loop has come to all keys: give up if nothing was deleted, stop
\* when nothing is left, else go over the remaining keys again
EndOfRange ==
    /\ sweep.pc = "range"
    /\ sweep.pending = {}
    /\ sweep' =
         IF ~sweep.deletedSomething
         THEN [Moved("failed", StillReferenced) EXCEPT
                    !.undeleted = UndeletedDigests(sweep.shallDeleteManifest)]
         ELSE IF sweep.shallDeleteManifest = {}
         THEN Moved("done", "")
         ELSE [sweep EXCEPT !.pending = sweep.shallDeleteManifest,
                            !.deletedSomething = FALSE]
    /\ UNCHANGED <<dbVars, lastPush, upstream, janitorVars, tokenVars, clientVars>>

\* SyncManifestsInNextRepo returns: an error of performManifestSync as it
\* is, else the repository is scheduled for the next hour (doneFails: that
\* UPDATE returns an error)
FinishSync(doneFails) ==
    /\ sweep.pc \in {"done", "failed"}
    /\ IF sweep.pc = "failed"
       THEN /\ ret' = Returned("SyncManifestsInNextRepo", sweep.err)
            /\ UNCHANGED sched
       ELSE IF doneFails
       THEN /\ ret' = Returned("SyncManifestsInNextRepo", "cannot update repos")
            /\ UNCHANGED sched
       ELSE /\ ret' = Returned("SyncManifestsInNextRepo", "")
            /\ sched' = NextManifestSyncAt(now)
    /\ sweep' = [NotStarted EXCEPT
                    !.run = sweep.run + 1,
                    !.upstreamChanges = sweep.upstreamChanges,
                    !.previous = IF sweep.pc = "done"
                                 THEN IF doneFails THEN "unscheduled" ELSE "synced"
                                 ELSE IF sweep.err = StillReferenced
                                 THEN "stuck" ELSE "failed"]
    /\ UNCHANGED <<dbVars, lastPush, upstream, now, job, applied, replicaVars, tokenVars, clientVars>>

\* Time passes until the repository is due again
Tick(minutes) ==
    /\ sweep.pc = "idle"
    /\ ~sched.null
    /\ now <= sched.at
    /\ now' = now + minutes
    /\ UNCHANGED <<dbVars, lastPush, upstream, sweep, sched, ret, job, applied, replicaVars, tokenVars, clientVars>>

\* The primary account changes while or after the replica is synced: a
\* manifest is pushed there or deleted there
UpstreamChange(manifestDigest) ==
    /\ sweep.pc # "idle" \/ sweep.run > 1
    /\ sweep.run <= MaxRuns
    /\ sweep.upstreamChanges < MaxUpstreamChanges
    /\ upstream' = IF manifestDigest \in upstream
                   THEN upstream \ {manifestDigest}
                   ELSE upstream \cup {manifestDigest}
    /\ sweep' = [sweep EXCEPT !.upstreamChanges = @ + 1]
    /\ UNCHANGED <<dbVars, lastPush, janitorVars, tokenVars, clientVars>>

\* A manifest that is on the primary but not here is read: it is fetched
\* and goes through ValidateAndStoreManifest
ReplicateManifest(manifestDigest) ==
    /\ sweep.pc # "idle" \/ sweep.run > 1
    /\ sweep.run <= MaxRuns
    /\ manifestDigest \in upstream
    /\ ~\E row \in manifests : row.repo = SyncRepoName /\ row.digest = manifestDigest
    /\ \E out \in {ValidateAndStoreManifest(Database, account,
                        [RepoName |-> SyncRepoName,
                         Reference |-> DigestReference(manifestDigest),
                         MediaType |-> MediaTypeOf(ContentsOf(manifestDigest)),
                         Contents |-> ContentsOf(manifestDigest),
                         PushedAt |-> now], "")} :
          /\ out.code = ""
          /\ repos' = out.db.repos
          /\ manifests' = out.db.manifests
          /\ tags' = out.db.tags
          /\ storage' = out.db.storage
    /\ UNCHANGED <<account, mounts, mrefs, brefs, lastPush, syncVars, tokenVars, clientVars>>

NextSync ==
    \/ \E probeFails, doneFails \in BOOLEAN : StartSync(probeFails, doneFails)
    \/ \E digest \in SyncDigests, dbFails \in BOOLEAN : VisitManifest(digest, dbFails)
    \/ \E sdFails \in BOOLEAN : DeleteFromStorage(sdFails)
    \/ EndOfRange
    \/ \E doneFails \in BOOLEAN : FinishSync(doneFails)
    \/ \E minutes \in {SyncInterval, SyncInterval + 1} : Tick(minutes)
    \/ \E manifestDigest \in SyncDigests : UpstreamChange(manifestDigest)
    \/ \E manifestDigest \in SyncDigests : ReplicateManifest(manifestDigest)

SpecSync == InitSync /\ [][NextSync]_vars

\* C10: whenever the sweep has deleted the row of a manifest c of its
\* deletion set, it has before that deleted the row of every manifest p of
\* the deletion set with a reference (p, c), whatever the order in which
\* the deletion set is gone through.
C10_ParentsFirst ==
    \A ref \in sweep.refs0 :
        (ref.parent \in sweep.shallDelete0 /\ ref.child \in sweep.shallDelete0) =>
            \A i \in 1..Len(sweep.log) :
                sweep.log[i] = ref.child =>
                    \E j \in 1..(i - 1) : sweep.log[j] = ref.parent

\* The sweep has deleted a manifest list, then the image that two
\* manifests of the deletion set referred to, and has finished
C10_Witness ==
    /\ sweep.pc = "done"
    /\ ReferenceRow(SyncRepoName, "sha256:l1", "sha256:m1") \in sweep.refs0
    /\ ReferenceRow(SyncRepoName, "sha256:m2", "sha256:m1") \in sweep.refs0
    /\ sweep.shallDelete0 = SyncDigests
    /\ Len(sweep.log) = 3
    /\ sweep.log[3] = "sha256:m1"


\* The manifests of the deletion set whose deletion the sweep has not made
Remaining == sweep.shallDelete0 \ Range(sweep.log)

\* the step is one of the sweep (not one of the primary or of a reader)
SweepStep ==
    [sweep' EXCEPT !.upstreamChanges = 0] # [sweep EXCEPT !.upstreamChanges = 0]

\* C11: the sweep deletes the row of a manifest only after the rows of all
\* manifests that referred to it when the sweep read the references (in the
\* deletion set or not); and when it has gone through what is left of the
\* deletion set without deleting anything, it deletes nothing more and
\* returns the error that names exactly the digests left.
C11_NoReferencedDeleted ==
    /\ [](\A i \in 1..Len(sweep.log) :
            \A ref \in sweep.refs0 :
                ref.child = sweep.log[i] =>
                    \E j \in 1..(i - 1) : sweep.log[j] = ref.parent)
    /\ [][(/\ sweep.pc = "range"
           /\ sweep.pending = {}
           /\ ~sweep.deletedSomething
           /\ SweepStep) =>
             /\ sweep'.pc = "failed"
             /\ sweep'.err = StillReferenced
             /\ sweep'.undeleted = Remaining
             /\ Remaining # {}
             /\ UNCHANGED <<manifests, storage>>]_vars

\* The sweep deleted one manifest and then gave up on another, which a
\* manifest outside of the deletion set refers to
C11_Witness ==
    /\ sweep.pc = "failed"
    /\ sweep.err = StillReferenced
    /\ sweep.shallDelete0 = {"sha256:m1", "sha256:m2"}
    /\ ReferenceRow(SyncRepoName, "sha256:l1", "sha256:m1") \in sweep.refs0
    /\ sweep.log = <<"sha256:m2">>
    /\ sweep.undeleted = {"sha256:m1"}
    /\ \E row \in manifests : row.digest = "sha256:m1"


\* The storage object of a manifest goes away in this step
StorageObjectRemoved(manifestDigest) ==
    /\ \E o \in storage : o.repo = SyncRepoName /\ o.digest = manifestDigest
    /\ ~\E o \in storage' : o.repo = SyncRepoName /\ o.digest = manifestDigest

\* A storage object is removed only by the sweep and only after the sweep
\* deleted the manifest's row; a failed DELETE stops the sweep and leaves
\* the storage as it is
StorageDeletedAfterRow ==
    [][/\ \A d \in SyncDigests :
            StorageObjectRemoved(d) =>
                (sweep.pc = "storage" /\ sweep.digest = d /\ d \in Range(sweep.log))
       /\ (sweep'.err = "cannot remove deleted manifest from DB" /\ sweep.pc = "range") =>
            (sweep'.pc = "failed" /\ UNCHANGED <<manifests, storage>>)]_vars

\* I6, for manifests: every manifest row has its storage object
EveryRowHasItsObject ==
    \A row \in manifests :
        \E o \in storage : o.repo = row.repo /\ o.digest = row.digest

\* C12: while manifests are replicated into the repository, the sweep
\* deletes the storage object of a manifest only after it deleted its row,
\* a failed DELETE keeps the storage object and stops the sweep, and so no
\* state has a manifest row whose storage object the sweep removed.
C12_DBBeforeStorage == StorageDeletedAfterRow /\ []EveryRowHasItsObject


\* The run before this one met no error of the database, the storage
\* driver or the primary, and the primary has not changed since it started
SecondRunInARow ==
    /\ sweep.run >= 2
    /\ sweep.previous \in {"synced", "unscheduled", "stuck", "skipped"}
    /\ sweep.upstreamChanges = 0

\* C13: when SyncManifestsInNextRepo runs on the repository again after a
\* run that met no failure of the database, the storage driver or the
\* primary, and the manifests on the primary have not changed, the later
\* run deletes no manifest row and no storage object.
C13_SyncIdempotent ==
    [][SecondRunInARow => UNCHANGED <<manifests, storage>>]_vars

\* the second run has gone through, an hour after a first run that deleted
\* two manifests
C13_Witness ==
    /\ SecondRunInARow
    /\ sweep.previous = "synced"
    /\ sweep.pc = "done"
    /\ now >= SyncInterval
    /\ Cardinality(manifests) = 1
    /\ Cardinality(storage) = 1


\* C22: when a call of SyncManifestsInNextRepo has returned without error,
\* next_manifest_sync_at of the repository is the time of the call plus one
\* hour; in an account in maintenance the call is over in one step that
\* probes and deletes nothing (tables and storage as they were, nothing in
\* the deletion set) and sets next_manifest_sync_at all the same, unless
\* that UPDATE itself fails.
C22_SyncReschedule ==
    /\ [](account.InMaintenance =>
            /\ sweep.pc = "idle"
            /\ sweep.shallDelete0 = {}
            /\ sweep.log = <<>>)
    /\ [][sweep'.run # sweep.run =>
            /\ ret'.kind = "returned"
            /\ ret'.call = "SyncManifestsInNextRepo"
            /\ ret'.err = "" => sched' = TimeAt(now + SyncInterval)
            /\ account.InMaintenance =>
                  /\ ret'.err \in {"", "cannot update repos"}
                  /\ UNCHANGED <<dbVars, upstream>>]_vars

\* the second run in an account in maintenance, made an hour and a minute
\* after the first: the manifests are gone upstream and still here, and the
\* repository is due again an hour later
C22_Witness ==
    /\ account.InMaintenance
    /\ sweep.run = 3
    /\ now = SyncInterval + 1
    /\ sched = TimeAt(2 * SyncInterval + 1)
    /\ ret = Returned("SyncManifestsInNextRepo", "")
    /\ upstream = {}
    /\ {row.digest : row \in manifests} = SyncDigests
    /\ {o.digest : o \in storage} = SyncDigests


\* ------------------------------------------------------------------
\* Manifest validation sweep
\* (internal/tasks/manifests.go, Janitor.ValidateNextManifest)
\*
\* In the specifications below time is kept relative to the present: now
\* stays 0, Sleep moves every stored time back by the time slept, and a
\* time further back than OldestTime is kept at OldestTime (the queries
\* compare stored times with now minus an interval only).

\* j.timeNow().Add(-24 * time.Hour), in minutes
ValidationInterval == 1440

\* j.timeNow().Add(-10 * time.Minute), in minutes
FailedValidationInterval == 10

OldestTime == 0 - (ValidationInterval + FailedValidationInterval)

\* the job loop calls again shortly after a call that found work
MaxBackoff == FailedValidationInterval

ValidateDigests == {"sha256:m1", "sha256:m2"}

ErrManifestUnknown == "MANIFEST_UNKNOWN"

UpdateFailed == "cannot update manifests"

\* a row of manifests with the columns the janitor reads and writes
JanitorManifestRow(manifestDigest, validatedAt, message, nextCheckAt) ==
    [repo |-> SyncRepoName, digest |-> manifestDigest, mediaType |-> MediaTypeOCI,
     sizeBytes |-> 300, pushedAt |-> OldestTime, validatedAt |-> validatedAt,
     validationErrorMessage |-> message,
     nextVulnerabilityCheckAt |-> nextCheckAt, vulnerabilityStatus |-> "Pending"]

\* WHERE validated_at < $1 OR (validated_at < $2 AND validation_error_message != '')
Outdated(row, t) ==
    \/ row.validatedAt < t - ValidationInterval
    \/ /\ row.validatedAt < t - FailedValidationInterval
       /\ row.validationErrorMessage # ""

\* ORDER BY validation_error_message != '' DESC, validated_at ASC
SortsBefore(a, b) ==
    \/ a.validationErrorMessage # "" /\ b.validationErrorMessage = ""
    \/ /\ (a.validationErrorMessage # "") = (b.validationErrorMessage # "")
       /\ a.validatedAt < b.validatedAt

OutdatedManifestSearch_mutOldestFirst(manifestRows, t) ==
    LET found == {row \in manifestRows : Outdated(row, t)}
    IN  {row \in found : ~\E other \in found : other.validatedAt < row.validatedAt}

\* outdatedManifestSearchQuery: the rows LIMIT 1 can give (rows that sort
\* alike can come in any order)
OutdatedManifestSearch(manifestRows, t) ==
    LET found == {row \in manifestRows : Outdated(row, t)}
    IN  {row \in found : ~\E other \in found : SortsBefore(other, row)}

\* Processor.ValidateExistingManifest: the manifest is read from the storage
\* and parsed, and its digest is checked
ValidateExistingManifest(objects, row) ==
    LET found == {o \in objects : o.repo = row.repo /\ o.digest = row.digest}
    IN  IF found = {} THEN ErrManifestUnknown
        ELSE IF \E o \in found : DigestOf(o.contents) # row.digest THEN ErrDigestInvalid
        ELSE ""

\* UPDATE manifests SET validated_at = $1, validation_error_message = ''
\*  WHERE repo_id = $2 AND digest = $3
RecordValidationSuccess_mutWholeRepo(manifestRows, row, t) ==
    {IF r.repo = row.repo
     THEN [r EXCEPT !.validatedAt = t, !.validationErrorMessage = ""]
     ELSE r : r \in manifestRows}

RecordValidationSuccess(manifestRows, row, t) ==
    {IF r.repo = row.repo /\ r.digest = row.digest
     THEN [r EXCEPT !.validatedAt = t, !.validationErrorMessage = ""]
     ELSE r : r \in manifestRows}

RecordValidationError_mutKeepTime(manifestRows, row, t, message) ==
    {IF r.repo = row.repo /\ r.digest = row.digest
     THEN [r EXCEPT !.validationErrorMessage = message]
     ELSE r : r \in manifestRows}

\* UPDATE manifests SET validated_at = $1, validation_error_message = $2
\*  WHERE repo_id = $3 AND digest = $4
RecordValidationError(manifestRows, row, t, message) ==
    {IF r.repo = row.repo /\ r.digest = row.digest
     THEN [r EXCEPT !.validatedAt = t, !.validationErrorMessage = message]
     ELSE r : r \in manifestRows}

\* the storage object of a manifest: as pushed, damaged, or lost
StorageStates(manifestDigest) ==
    {{[repo |-> SyncRepoName, digest |-> manifestDigest,
       contents |-> ContentsOf(manifestDigest)]},
     {[repo |-> SyncRepoName, digest |-> manifestDigest, contents |-> "bytes-bad"]},
     {}}

InitValidate ==
    /\ account = [Name |-> "test1", UpstreamPeerHostName |-> "",
                  RequiredLabels |-> <<>>, InMaintenance |-> FALSE]
    /\ repos = {SyncRepoName}
    /\ mounts = {}
    /\ manifests \in
         {{JanitorManifestRow("sha256:m1", at1, msg1, NullTime),
           JanitorManifestRow("sha256:m2", at2, msg2, NullTime)} :
            at1 \in {0, 0 - FailedValidationInterval, 0 - 2 * FailedValidationInterval,
                     0 - ValidationInterval, OldestTime},
            at2 \in {0 - 2 * FailedValidationInterval, 0 - ValidationInterval, OldestTime},
            msg1 \in {"", ErrDigestInvalid},
            msg2 \in {"", ErrManifestUnknown}}
    /\ tags = {}
    /\ mrefs = {}
    /\ brefs = {}
    /\ storage \in {s1 \cup s2 : s1 \in StorageStates("sha256:m1"),
                                 s2 \in StorageStates("sha256:m2")}
    /\ lastPush = NoPush
    /\ upstream = {}
    /\ sweep = IdleSweep
    /\ now = 0
    /\ sched = NullTime
    /\ ret = NoReturn
    /\ job = NoJob
    /\ blobs = {}
    /\ requests = NoRequests
    /\ applied = NoCall
    /\ cfg = [APIPublicHostname |-> LocalHostname,
              AnycastAPIPublicHostname |-> AnycastHostname,
              JWTIssuerKeys |-> <<"K1">>, AnycastJWTIssuerKeys |-> <<>>]
    /\ tok = NoToken
    /\ prov = NoProvenance
    /\ res = NoResult
    /\ session = NoSession
    /\ registry = NoRegistry

\* One call of ValidateNextManifest (updateFails: the UPDATE returns an error)
ValidateNextManifest(updateFails) ==
    /\ \E found \in {OutdatedManifestSearch(manifests, now)} :
        IF found = {}
        THEN /\ ret' = Returned("ValidateNextManifest", ErrNoRows)
             /\ job' = NoJob
             /\ UNCHANGED manifests
        ELSE \E row \in found :
             \E err \in {ValidateExistingManifest(storage, row)} :
                /\ job' = [item |-> row.digest, lastCall |-> TimeAt(now),
                            was |-> [at |-> row.validatedAt,
                                     message |-> row.validationErrorMessage]]
                /\ IF err = ""
                   THEN IF updateFails
                        THEN /\ ret' = Returned("ValidateNextManifest", UpdateFailed)
                             /\ UNCHANGED manifests
                        ELSE /\ ret' = Returned("ValidateNextManifest", "")
                             /\ manifests' = RecordValidationSuccess(manifests, row, now)
                   ELSE IF updateFails
                        THEN /\ ret' = Returned("ValidateNextManifest",
                                          err \o " (additional error encountered while recording validation error: "
                                              \o UpdateFailed \o ")")
                             /\ UNCHANGED manifests
                        ELSE /\ ret' = Returned("ValidateNextManifest", err)
                             /\ manifests' = RecordValidationError(manifests, row, now, err)
    /\ UNCHANGED <<account, repos, mounts, tags, mrefs, brefs, storage, lastPush,
                   upstream, sweep, now, sched, applied, replicaVars, tokenVars, clientVars>>

\* a stored time after the janitor has slept
Earlier(t, minutes) ==
    IF t - minutes < OldestTime THEN OldestTime ELSE t - minutes

EarlierTime(time, minutes) ==
    IF time.null THEN time ELSE TimeAt(Earlier(time.at, minutes))

\* The job loop sleeps between two calls: shortly after a call that found
\* work, for any time after a call that found none
Sleep(minutes) ==
    /\ sweep.pc = "idle"
    /\ job.lastCall.null \/ now - job.lastCall.at + minutes <= MaxBackoff
    /\ manifests' =
         {[row EXCEPT !.validatedAt = Earlier(@, minutes),
                      !.pushedAt = Earlier(@, minutes),
                      !.nextVulnerabilityCheckAt = EarlierTime(@, minutes)] :
            row \in manifests}
    /\ sched' = EarlierTime(sched, minutes)
    /\ job' = [job EXCEPT !.lastCall = EarlierTime(@, minutes)]
    /\ UNCHANGED <<account, repos, mounts, tags, mrefs, brefs, storage, lastPush,
                   upstream, sweep, now, ret, applied, replicaVars, tokenVars, clientVars>>

NextValidate ==
    \/ \E updateFails \in BOOLEAN : ValidateNextManifest(updateFails)
    \/ \E minutes \in {FailedValidationInterval, 2 * FailedValidationInterval,
                       ValidationInterval} : Sleep(minutes)

SpecValidate == InitValidate /\ [][NextValidate]_vars


\* the short back-off of the job loop after a call that found work
Backoff ==
    /\ ~job.lastCall.null
    /\ Sleep(MaxBackoff)

\* the back-off of the job loop after a call that found none
IdleBackoff(minutes) ==
    /\ job.lastCall.null
    /\ Sleep(minutes)

\* m1 as pushed, damaged or lost, validated now or long ago; m2 as pushed,
\* validated 20 min ago or long ago
InitValidateFair ==
    /\ account = [Name |-> "test1", UpstreamPeerHostName |-> "",
                  RequiredLabels |-> <<>>, InMaintenance |-> FALSE]
    /\ repos = {SyncRepoName}
    /\ mounts = {}
    /\ manifests \in
         {{JanitorManifestRow("sha256:m1", at1, msg1, NullTime),
           JanitorManifestRow("sha256:m2", at2, "", NullTime)} :
            at1 \in {0, OldestTime},
            at2 \in {0 - 2 * FailedValidationInterval, OldestTime},
            msg1 \in {"", ErrDigestInvalid}}
    /\ tags = {}
    /\ mrefs = {}
    /\ brefs = {}
    /\ storage \in {s1 \cup {[repo |-> SyncRepoName, digest |-> "sha256:m2",
                               contents |-> ContentsOf("sha256:m2")]} :
                        s1 \in StorageStates("sha256:m1")}
    /\ lastPush = NoPush
    /\ upstream = {}
    /\ sweep = IdleSweep
    /\ now = 0
    /\ sched = NullTime
    /\ ret = NoReturn
    /\ job = NoJob
    /\ blobs = {}
    /\ requests = NoRequests
    /\ applied = NoCall
    /\ cfg = [APIPublicHostname |-> LocalHostname,
              AnycastAPIPublicHostname |-> AnycastHostname,
              JWTIssuerKeys |-> <<"K1">>, AnycastJWTIssuerKeys |-> <<>>]
    /\ tok = NoToken
    /\ prov = NoProvenance
    /\ res = NoResult
    /\ session = NoSession
    /\ registry = NoRegistry

NextValidateFair ==
    \/ ValidateNextManifest(FALSE)
    \/ Backoff
    \/ \E minutes \in {2 * FailedValidationInterval, ValidationInterval} :
            IdleBackoff(minutes)

\* The job loop calls ValidateNextManifest again and again, at most
\* MaxBackoff after a call that found work; the database is up
SpecValidateFair ==
    /\ InitValidateFair
    /\ [][NextValidateFair]_vars
    /\ WF_vars(ValidateNextManifest(FALSE))

\* the row of a manifest
RowOf(manifestRows, manifestDigest) ==
    CHOOSE row \in manifestRows : row.digest = manifestDigest

\* This step is a call of ValidateNextManifest that selected the manifest
ValidationOf(manifestDigest) ==
    /\ ret'.kind = "returned"
    /\ ret'.call = "ValidateNextManifest"
    /\ job'.lastCall = TimeAt(now)
    /\ job'.item = manifestDigest

\* This step is a call of ValidateNextManifest that found no manifest
IdleValidation ==
    /\ ret' = Returned("ValidateNextManifest", ErrNoRows)
    /\ job' = NoJob
    /\ ret # ret' \/ job # job'

C15_ValidationFrame ==
    [][/\ \A d \in ValidateDigests :
            ValidationOf(d) =>
                LET m == RowOf(manifests, d)
                    err == ValidateExistingManifest(storage, m)
                IN  /\ UNCHANGED <<account, repos, mounts, tags, mrefs, brefs, storage>>
                    /\ \A o \in manifests : o.digest # d => o \in manifests'
                    /\ Cardinality(manifests') = Cardinality(manifests)
                    /\ \E after \in manifests' :
                        /\ after.digest = d
                        /\ [after EXCEPT !.validatedAt = m.validatedAt,
                                         !.validationErrorMessage =
                                               m.validationErrorMessage] = m
                        /\ after # m =>
                            /\ after.validatedAt = now
                            /\ after.validationErrorMessage = err
                            /\ ret'.err = err
                        /\ (err = "" /\ m.validationErrorMessage = "") =>
                                after = [m EXCEPT !.validatedAt = after.validatedAt]
                        /\ err # "" => ret'.err # ""
       /\ IdleValidation => UNCHANGED dbVars]_vars

\* the damaged manifest m1 has just failed its validation: the row has the
\* error text and the present time, the call returned the error
C15_Witness ==
    /\ job.item = "sha256:m1"
    /\ job.lastCall = TimeAt(now)
    /\ job.was.message = ""
    /\ ret = Returned("ValidateNextManifest", ErrDigestInvalid)
    /\ ret.wrapped
    /\ \E o \in manifests : /\ o.digest = "sha256:m1"
                            /\ o.validationErrorMessage = ErrDigestInvalid
                            /\ o.validatedAt = now

\* the manifest is due for validation
Due(manifestDigest) ==
    \E m \in manifests :
        /\ m.digest = manifestDigest
        /\ \/ m.validatedAt < now - ValidationInterval
           \/ /\ m.validatedAt < now - FailedValidationInterval
              /\ m.validationErrorMessage # ""

\* the manifest has just been validated
JustValidated(manifestDigest) ==
    /\ job.item = manifestDigest
    /\ job.lastCall = TimeAt(now)
    /\ RowOf(manifests, manifestDigest).validatedAt = now

CleanSeverity == "Clean"
NegligibleSeverity == "Negligible"
LowSeverity == "Low"
MediumSeverity == "Medium"
HighSeverity == "High"
CriticalSeverity == "Critical"
UnknownSeverity == "Unknown"
PendingSeverity == "Pending"

\* the severities from the least to the greatest; Pending is above all
SeverityOrder ==
    <<CleanSeverity, NegligibleSeverity, LowSeverity, MediumSeverity,
      HighSeverity, CriticalSeverity, UnknownSeverity, PendingSeverity>>

Severities == {SeverityOrder[i] : i \in 1..Len(SeverityOrder)}

\* the place of a severity in the order
SeverityRank(severity) ==
    CHOOSE i \in 1..Len(SeverityOrder) : SeverityOrder[i] = severity

\* longest argument list of MergeSeverities that is gone through
MaxSeverities == 3

RECURSIVE MergeSeverities(_)

MergeSeverities_mutLastWins(sev) ==
    IF sev = <<>> THEN CleanSeverity ELSE sev[Len(sev)]

\* result := CleanSeverity; for _, s := range sev { if s is above result { result = s } }
MergeSeverities(sev) ==
    IF sev = <<>> THEN CleanSeverity
    ELSE LET result == MergeSeverities(SubSeq(sev, 1, Len(sev) - 1))
             s == sev[Len(sev)]
         IN  IF SeverityRank(s) > SeverityRank(result) THEN s ELSE result

SeverityLists ==
    UNION {[1..n -> Severities] : n \in 0..MaxSeverities}

InitSeverity ==
    /\ applied \in {[fn |-> "MergeSeverities", sev |-> sev, returned |-> FALSE,
                     result |-> ""] : sev \in SeverityLists}
    /\ cfg = [APIPublicHostname |-> LocalHostname,
              AnycastAPIPublicHostname |-> AnycastHostname,
              JWTIssuerKeys |-> <<"K1">>, AnycastJWTIssuerKeys |-> <<>>]
    /\ tok = NoToken
    /\ prov = NoProvenance
    /\ res = NoResult
    /\ session = NoSession
    /\ registry = NoRegistry
    /\ account = NoAccount
    /\ repos = {}
    /\ mounts = {}
    /\ manifests = {}
    /\ tags = {}
    /\ mrefs = {}
    /\ brefs = {}
    /\ storage = {}
    /\ lastPush = NoPush
    /\ upstream = {}
    /\ sweep = IdleSweep
    /\ now = 0
    /\ sched = NullTime
    /\ ret = NoReturn
    /\ job = NoJob
    /\ blobs = {}
    /\ requests = NoRequests

\* MergeSeverities(sev...) is called
Merge ==
    /\ applied.fn = "MergeSeverities"
    /\ ~applied.returned
    /\ applied' = [applied EXCEPT !.returned = TRUE,
                                  !.result = MergeSeverities(applied.sev)]
    /\ UNCHANGED <<tokenVars, clientVars, ingestVars, upstream, sweep, now, sched, ret, job,
                   replicaVars>>

\* The result is merged with one more severity
MergeWith(severity) ==
    /\ applied.fn = "MergeSeverities"
    /\ applied.returned
    /\ Len(applied.sev) < MaxSeverities
    /\ applied' = [applied EXCEPT
                      !.sev = Append(@, severity),
                      !.result = MergeSeverities(<<applied.result, severity>>)]
    /\ UNCHANGED <<tokenVars, clientVars, ingestVars, upstream, sweep, now, sched, ret, job,
                   replicaVars>>

NextSeverity ==
    \/ Merge
    \/ \E severity \in Severities : MergeWith(severity)

SpecSeverity == InitSeverity /\ [][NextSeverity]_vars

\* the elements of a list
Elements(list) == {list[i] : i \in 1..Len(list)}

\* the greatest of a non-empty set of severities in the order
\* clean < negligible < low < medium < high < critical < unknown
GreatestSeverity(sevs) ==
    LET order == <<"Clean", "Negligible", "Low", "Medium", "High", "Critical", "Unknown">>
        place(x) == CHOOSE i \in 1..7 : order[i] = x
    IN  CHOOSE x \in sevs : \A y \in sevs : place(y) <= place(x)

\* the list with two of its places exchanged
Exchanged(list, i, j) ==
    [k \in 1..Len(list) |-> IF k = i THEN list[j] ELSE IF k = j THEN list[i] ELSE list[k]]

\* C17: MergeSeverities of an empty list is clean; with a pending argument
\* the result is pending; else it is the greatest argument in the order
\* clean < negligible < low < medium < high < critical < unknown; and the
\* result is the same in whatever order and grouping the arguments are
\* merged, and merging a severity with itself gives that severity.
C17_SeverityJoin ==
    applied.fn = "MergeSeverities" /\ applied.returned =>
        LET sev == applied.sev
            args == Elements(sev)
        IN  /\ sev = <<>> => applied.result = "Clean"
            /\ "Pending" \in args => applied.result = "Pending"
            /\ (sev # <<>> /\ "Pending" \notin args) =>
                    applied.result = GreatestSeverity(args)
            /\ \A i, j \in 1..Len(sev) :
                    MergeSeverities(Exchanged(sev, i, j)) = applied.result
            /\ \A k \in 0..Len(sev) :
                    MergeSeverities(<<MergeSeverities(SubSeq(sev, 1, k)),
                                      MergeSeverities(SubSeq(sev, k + 1, Len(sev)))>>)
                        = applied.result
            /\ \A x \in args : MergeSeverities(<<x, x>>) = x
            /\ MergeSeverities(<<applied.result, applied.result>>) = applied.result

\* low, high and pending have been merged: first low with high, then the
\* result with pending
C17_Witness ==
    /\ applied.fn = "MergeSeverities"
    /\ applied.returned
    /\ applied.sev = <<"Low", "High", "Pending">>
    /\ applied.result = "Pending"
    /\ MergeSeverities(<<"Low", "High">>) = "High"
    /\ MergeSeverities(<<"Low", "Low">>) = "Low"


\* ------------------------------------------------------------------
\* Tag list (GET /v2/<name>/tags/list; internal/api/registry/tags_test.go)

\* the tag names of the test, in lexicographic order
AllTagNames == <<"1b", "2c", "3d", "4e">>

\* values of the query parameter last: none, the tag names, a name that is
\* no tag (between "2c" and "3d")
LastValues == <<"", "1b", "2c", "2x", "3d", "4e">>

\* pushes made before the tags are listed
MaxPushes == 4

\* strings.Compare(a, b) < 0
LexBefore(a, b) ==
    LET place(x) == CHOOSE i \in 1..Len(LastValues) : LastValues[i] = x
    IN  place(a) < place(b)

\* ORDER BY name ASC
SortedByName(names) ==
    [i \in 1..Cardinality(names) |->
        CHOOSE x \in names : Cardinality({y \in names : LexBefore(y, x)}) = i - 1]

\* the first count elements of a list
FirstOf(list, count) ==
    IF Len(list) <= count THEN list ELSE SubSeq(list, 1, count)

NoLink == [set |-> FALSE, last |-> "", n |-> 0]

\* Link: </v2/<name>/tags/list?last=<last>&n=<n>>; rel="next"
NextLink(lastName, n) == [set |-> TRUE, last |-> lastName, n |-> n]

ListTags_mutByPushTime(tagRows, repoName, hasN, n, last) ==
    LET rows == {t \in tagRows : t.repo = repoName /\ LexBefore(last, t.name)}
        byTime == [i \in 1..Cardinality(rows) |->
                     (CHOOSE t \in rows :
                        Cardinality({u \in rows : u.pushedAt < t.pushedAt}) = i - 1).name]
    IN  IF hasN /\ n < 1
        THEN [status |-> 400, tags |-> <<>>, link |-> NoLink]
        ELSE IF hasN /\ Len(byTime) > n
        THEN [status |-> 200, tags |-> FirstOf(byTime, n),
              link |-> NextLink(FirstOf(byTime, n)[n], n)]
        ELSE [status |-> 200, tags |-> byTime, link |-> NoLink]

\* The handler of the tag list: n is parsed (400 unless at least 1), the tag
\* names after last are read in order, one more than n; if there are more
\* than n, the first n are the page and the Link header names the last of them
ListTags(tagRows, repoName, hasN, n, last) ==
    LET names == {t.name : t \in {r \in tagRows :
                                    r.repo = repoName /\ LexBefore(last, r.name)}}
        sorted == SortedByName(names)
        rows == IF hasN THEN FirstOf(sorted, n + 1) ELSE sorted
    IN  IF hasN /\ n < 1
        THEN [status |-> 400, tags |-> <<>>, link |-> NoLink]
        ELSE IF hasN /\ Len(rows) > n
        THEN [status |-> 200, tags |-> FirstOf(rows, n),
              link |-> NextLink(rows[n], n)]
        ELSE [status |-> 200, tags |-> rows, link |-> NoLink]

InitTags ==
    /\ account = [Name |-> "test1", UpstreamPeerHostName |-> "",
                  RequiredLabels |-> <<>>, InMaintenance |-> FALSE]
    /\ repos = {"foo"}
    /\ mounts = {}
    /\ manifests = {ManifestRow("foo", "sha256:m1")}
    /\ tags = {}
    /\ mrefs = {}
    /\ brefs = {}
    /\ storage = {[repo |-> "foo", digest |-> "sha256:m1", contents |-> "bytes-m1"]}
    /\ lastPush = NoPush
    /\ upstream = {}
    /\ sweep = IdleSweep
    /\ now = 0
    /\ sched = NullTime
    /\ ret = NoReturn
    /\ job = NoJob
    /\ blobs = {}
    /\ requests = NoRequests
    /\ applied = NoCall
    /\ cfg = [APIPublicHostname |-> LocalHostname,
              AnycastAPIPublicHostname |-> AnycastHostname,
              JWTIssuerKeys |-> <<"K1">>, AnycastJWTIssuerKeys |-> <<>>]
    /\ tok = NoToken
    /\ prov = NoProvenance
    /\ res = NoResult
    /\ session = NoSession
    /\ registry = NoRegistry

\* image.MustUpload(..., tagName): the image is pushed under a tag
PushTag(tagName) ==
    /\ now < MaxPushes
    /\ tags' = TagUpsert(tags, [repo |-> "foo", name |-> tagName,
                                digest |-> "sha256:m1", pushedAt |-> now])
    /\ now' = now + 1
    /\ applied' = NoCall
    /\ UNCHANGED <<account, repos, mounts, manifests, mrefs, brefs, storage, lastPush,
                   upstream, sweep, sched, ret, job, replicaVars, tokenVars, clientVars>>

\* GET /v2/test1/foo/tags/list with or without n, with or without last
GetTagList(hasN, n, last) ==
    /\ applied' = [fn |-> "ListTags", hasN |-> hasN, n |-> n, last |-> last,
                   response |-> ListTags(tags, "foo", hasN, n, last)]
    /\ UNCHANGED <<tokenVars, clientVars, ingestVars, upstream, sweep, now, sched, ret, job,
                   replicaVars>>

NextTags ==
    \/ \E i \in 1..Len(AllTagNames) : PushTag(AllTagNames[i])
    \/ \E hasN \in BOOLEAN, n \in (0 - 1)..(Len(AllTagNames) + 1),
          i \in 1..Len(LastValues) : GetTagList(hasN, n, LastValues[i])

SpecTags == InitTags /\ [][NextTags]_vars

\* the tag names of the repository that come after last
TagsAfter(last) ==
    {t.name : t \in {r \in tags : r.repo = "foo" /\ LexBefore(last, r.name)}}

\* C18: a request with n >= 1 returns the n least tag names that come
\* strictly after last (after nothing, when last is absent), in ascending
\* order, whatever the order of the pushes; the Link header is set exactly
\* when tag names remain after the page, and then names the last tag of the
\* page and the same n.
C18_TagPagination ==
    (applied.fn = "ListTags" /\ applied.hasN /\ applied.n >= 1) =>
        LET page == applied.response.tags
            after == TagsAfter(applied.last)
            rest == after \ Elements(page)
        IN  /\ applied.response.status = 200
            /\ Elements(page) \subseteq after
            /\ Len(page) = Cardinality(Elements(page))
            /\ Len(page) = IF Cardinality(after) < applied.n
                           THEN Cardinality(after) ELSE applied.n
            /\ \A i, j \in 1..Len(page) : i < j => LexBefore(page[i], page[j])
            /\ \A x \in Elements(page), y \in rest : LexBefore(x, y)
            /\ applied.response.link.set <=> rest # {}
            /\ applied.response.link.set =>
                    /\ applied.response.link.last = page[Len(page)]
                    /\ applied.response.link.n = applied.n

\* four tags pushed, "4e" first and "1b" last; the page of two after "1b" is
\* "2c", "3d" and the Link header names "3d"
C18_Witness ==
    /\ applied.fn = "ListTags"
    /\ applied.hasN
    /\ applied.n = 2
    /\ applied.last = "1b"
    /\ applied.response.tags = <<"2c", "3d">>
    /\ applied.response.link = NextLink("3d", 2)
    /\ \E first, second \in tags :
        /\ first.name = "4e" /\ first.pushedAt = 0
        /\ second.name = "1b" /\ second.pushedAt = 3


\* ------------------------------------------------------------------
\* Replication of a blob on read (spec 4.3), and the vulnerability check's
\* call of it (internal/tasks/manifests.go, doVulnerabilityCheck)

\* two read requests and the janitor's vulnerability check
Readers == {"read1", "read2", "janitor"}

ReplicatedBlob == "sha256:layer"

\* fetches from the primary that are gone through
MaxFetches == 2

BlobRow(blobDigest, storageID) ==
    [account |-> "replica1", digest |-> blobDigest, storageID |-> storageID]

\* the row of the blob, if there is one
BlobRowsOf(blobRows, blobDigest) ==
    {b \in blobRows : b.account = "replica1" /\ b.digest = blobDigest}

\* the blob is not here: no row, or a row without storage ID
BlobAbsent(blobRows, blobDigest) ==
    \A b \in BlobRowsOf(blobRows, blobDigest) : b.storageID = ""

ReserveBlobRow_mutNoUniqueness(blobRows, blobDigest) ==
    [won |-> BlobAbsent(blobRows, blobDigest),
     rows |-> IF BlobAbsent(blobRows, blobDigest)
              THEN blobRows \cup {BlobRow(blobDigest, "")} ELSE blobRows]

\* The Blob row is reserved: INSERT of a row with empty storage_id, which
\* fails when there is a row of the digest already
ReserveBlobRow(blobRows, blobDigest) ==
    IF BlobRowsOf(blobRows, blobDigest) = {}
    THEN [won |-> TRUE, rows |-> blobRows \cup {BlobRow(blobDigest, "")}]
    ELSE [won |-> FALSE, rows |-> blobRows]

\* on success, set storage_id
FillBlobRow(blobRows, blobDigest) ==
    (blobRows \ BlobRowsOf(blobRows, blobDigest)) \cup {BlobRow(blobDigest, blobDigest)}

\* on failure, delete the row
DropBlobRow(blobRows, blobDigest) ==
    blobRows \ BlobRowsOf(blobRows, blobDigest)

At(reader, pc) ==
    [requests EXCEPT !.pc[reader] = pc]

InitReplicate ==
    /\ blobs = {}
    /\ requests = [kind |-> "readers", pc |-> [r \in Readers |-> "start"],
                   fetches |-> 0, successes |-> 0, waited |-> {}]
    /\ account = [Name |-> "replica1", UpstreamPeerHostName |-> "peer.example.org",
                  RequiredLabels |-> <<>>, InMaintenance |-> FALSE]
    /\ repos = {"foo"}
    /\ mounts = {}
    /\ manifests = {}
    /\ tags = {}
    /\ mrefs = {}
    /\ brefs = {}
    /\ storage = {}
    /\ lastPush = NoPush
    /\ upstream = {}
    /\ sweep = IdleSweep
    /\ now = 0
    /\ sched = NullTime
    /\ ret = NoReturn
    /\ job = NoJob
    /\ applied = NoCall
    /\ cfg = [APIPublicHostname |-> LocalHostname,
              AnycastAPIPublicHostname |-> AnycastHostname,
              JWTIssuerKeys |-> <<"K1">>, AnycastJWTIssuerKeys |-> <<>>]
    /\ tok = NoToken
    /\ prov = NoProvenance
    /\ res = NoResult
    /\ session = NoSession
    /\ registry = NoRegistry

\* A read request for the blob arrives: the blob is served when it is
\* here, else it is replicated
Arrive(reader) ==
    /\ reader # "janitor"
    /\ requests.pc[reader] = "start"
    /\ requests' = At(reader, IF BlobAbsent(blobs, ReplicatedBlob)
                              THEN "replicate" ELSE "served")
    /\ UNCHANGED <<tokenVars, clientVars, ingestVars, upstream, sweep, now, sched, ret, job,
                   applied, blobs>>

\* doVulnerabilityCheck comes to the blob in its loop over the manifest's
\* blobs: a blob without storage ID ends the check when the manifest was
\* pushed more than 10 minutes ago, else the janitor replicates the blob
\* itself (windowElapsed: NextVulnerabilityCheckAt.Before(time.Now()))
JanitorReadsBlob(windowElapsed) ==
    /\ requests.pc["janitor"] \in {"start", "replicated"}
    /\ requests' =
         IF BlobRowsOf(blobs, ReplicatedBlob) = {} THEN At("janitor", "scan")
         ELSE IF ~BlobAbsent(blobs, ReplicatedBlob) THEN At("janitor", "scan")
         ELSE IF windowElapsed THEN At("janitor", "deferred")
         ELSE At("janitor", "replicate")
    /\ UNCHANGED <<tokenVars, clientVars, ingestVars, upstream, sweep, now, sched, ret, job,
                   applied, blobs>>

\* ReplicateBlob begins: who reserves the row fetches from the primary, who
\* finds it reserved waits, who finds the blob here is done
Reserve(reader) ==
    /\ requests.pc[reader] = "replicate"
    /\ \E got \in {ReserveBlobRow(blobs, ReplicatedBlob)} :
        IF got.won
        THEN /\ requests.fetches < MaxFetches
             /\ blobs' = got.rows
             /\ requests' = [At(reader, "fetching") EXCEPT !.fetches = @ + 1]
        ELSE /\ UNCHANGED blobs
             /\ requests' =
                  IF BlobAbsent(blobs, ReplicatedBlob)
                  THEN [At(reader, "waiting") EXCEPT !.waited = @ \cup {reader}]
                  ELSE At(reader, "replicated")
    /\ UNCHANGED <<tokenVars, clientVars, ingestVars, upstream, sweep, now, sched, ret, job,
                   applied>>

\* The fetch ends: the storage ID is set, or the row is deleted
FinishFetch(reader, ok) ==
    /\ requests.pc[reader] = "fetching"
    /\ IF ok
       THEN /\ blobs' = FillBlobRow(blobs, ReplicatedBlob)
            /\ requests' = [At(reader, "replicated") EXCEPT !.successes = @ + 1]
       ELSE /\ blobs' = DropBlobRow(blobs, ReplicatedBlob)
            /\ requests' = At(reader, "failed")
    /\ UNCHANGED <<tokenVars, clientVars, ingestVars, upstream, sweep, now, sched, ret, job,
                   applied>>

\* Who waits reads the row again: with a storage ID the blob is here, with
\* the row gone the replication is begun again
Poll(reader) ==
    /\ requests.pc[reader] = "waiting"
    /\ \/ BlobRowsOf(blobs, ReplicatedBlob) = {}
       \/ ~BlobAbsent(blobs, ReplicatedBlob)
    /\ requests' = At(reader, IF BlobRowsOf(blobs, ReplicatedBlob) = {}
                              THEN "replicate" ELSE "replicated")
    /\ UNCHANGED <<tokenVars, clientVars, ingestVars, upstream, sweep, now, sched, ret, job,
                   applied, blobs>>

\* The read request reads the blob that is here now and answers
Serve(reader) ==
    /\ reader # "janitor"
    /\ requests.pc[reader] = "replicated"
    /\ requests' = At(reader, "served")
    /\ UNCHANGED <<tokenVars, clientVars, ingestVars, upstream, sweep, now, sched, ret, job,
                   applied, blobs>>

NextReplicate ==
    \/ \E reader \in Readers : Arrive(reader)
    \/ \E windowElapsed \in BOOLEAN : JanitorReadsBlob(windowElapsed)
    \/ \E reader \in Readers : Reserve(reader)
    \/ \E reader \in Readers, ok \in BOOLEAN : FinishFetch(reader, ok)
    \/ \E reader \in Readers : Poll(reader)
    \/ \E reader \in Readers : Serve(reader)

SpecReplicate == InitReplicate /\ [][NextReplicate]_vars

\* the readers that are fetching the blob from the primary
Fetching == {r \in Readers : requests.pc[r] = "fetching"}

\* C19: of the readers of a blob that is not in the replica account, at
\* most one is fetching it from the primary at any time, and while it does
\* the row of the blob is there without storage ID; a reader that comes to
\* a reserved row makes no fetch but waits, and goes on only when the row has
\* its storage ID or is gone; and once a fetch has succeeded no other fetch
\* is made.
C19_SingleFlight ==
    /\ [](/\ Cardinality(Fetching) <= 1
          /\ Fetching # {} => /\ BlobRowsOf(blobs, ReplicatedBlob) # {}
                              /\ BlobAbsent(blobs, ReplicatedBlob))
    /\ [][/\ \A r \in Readers :
               /\ (requests.pc[r] = "replicate" /\ requests'.pc[r] # "replicate"
                        /\ Fetching # {})
                     => (requests'.pc[r] = "waiting" /\ requests'.fetches = requests.fetches)
               /\ (requests.pc[r] = "waiting" /\ requests'.pc[r] # "waiting")
                     => Fetching = {}
          /\ requests.successes >= 1 => requests'.fetches = requests.fetches]_vars

\* one fetch was made and it succeeded; the other read request and the
\* janitor waited for it, and all three have the blob
C19_Witness ==
    /\ requests.fetches = 1
    /\ requests.successes = 1
    /\ requests.waited = {"read2", "janitor"}
    /\ requests.pc = [r \in Readers |-> IF r = "janitor" THEN "scan" ELSE "served"]
    /\ ~BlobAbsent(blobs, ReplicatedBlob)


\* ------------------------------------------------------------------
\* The vulnerability sweep (internal/tasks/manifests.go,
\* CheckVulnerabilitiesForNextManifest) and the three sweeps of the janitor
\* side by side

VulnerabilityCheckInterval == 60
IndexingCheckInterval == 2
ReplicationGracePeriod == 10

\* WHERE m.next_vuln_check_at IS NULL OR m.next_vuln_check_at < $1
VulnCheckDue(row, t) ==
    \/ row.nextVulnerabilityCheckAt.null
    \/ row.nextVulnerabilityCheckAt.at < t

\* ORDER BY m.next_vuln_check_at IS NULL DESC, m.next_vuln_check_at ASC
VulnCheckBefore(a, b) ==
    \/ a.nextVulnerabilityCheckAt.null
    \/ /\ ~b.nextVulnerabilityCheckAt.null
       /\ a.nextVulnerabilityCheckAt.at <= b.nextVulnerabilityCheckAt.at

VulnCheckSelect_mutAnyRow(manifestRows, t) ==
    manifestRows

\* vulnCheckSelectQuery: the rows that LIMIT 1 may give
VulnCheckSelect(manifestRows, t) ==
    {row \in manifestRows :
        /\ VulnCheckDue(row, t)
        /\ \A other \in manifestRows :
              VulnCheckDue(other, t) => VulnCheckBefore(row, other)}

VulnCheckBlobSelect_mutNoBlobs(blobRows, blobRefRows, row) == {}

\* vulnCheckBlobSelectQuery: the blobs that the manifest refers to
VulnCheckBlobSelect(blobRows, blobRefRows, row) ==
    {b \in blobRows :
        \E ref \in blobRefRows :
            ref.repo = row.repo /\ ref.digest = row.digest /\ ref.blob = b.digest}

VulnCheckSubmanifestInfo_mutNoRows(manifestRows, refRows, parentDigest) == {}

\* vulnCheckSubmanifestInfoQuery: vuln_status of the manifests that are
\* children of the digest, in any repository
VulnCheckSubmanifestInfo(manifestRows, refRows, parentDigest) ==
    {m \in manifestRows :
        \E r \in refRows : r.parent = parentDigest /\ r.child = m.digest}

RECURSIVE StatusesOf(_)

\* the scanned vuln_status column, one per row
StatusesOf(rows) ==
    IF rows = {} THEN <<>>
    ELSE LET m == CHOOSE x \in rows : TRUE
         IN  Append(StatusesOf(rows \ {m}), m.vulnerabilityStatus)

\* what Clair may answer about a manifest: the state cannot be read, the
\* indexing has failed, is not finished, is finished without report, or is
\* finished with a report of some severity
ClairAnswers ==
    {[state |-> "unreachable", severity |-> ""], [state |-> "errored", severity |-> ""],
     [state |-> "indexing", severity |-> ""], [state |-> "noreport", severity |-> ""],
     [state |-> "indexed", severity |-> CleanSeverity],
     [state |-> "indexed", severity |-> HighSeverity]}

\* Processor.ReplicateBlob as the janitor sees it: the blob is here
\* afterwards, or an error comes back
ReplicateBlob(blobRows, blobDigest, ok) ==
    IF ok THEN [err |-> "", rows |-> FillBlobRow(blobRows, blobDigest)]
    ELSE [err |-> "cannot replicate blob", rows |-> blobRows]

\* account of a repository (FindRepositoryByID, FindAccount): "bar" is a
\* repository of a primary account beside the replica account
PrimaryAccount ==
    [Name |-> "test1", UpstreamPeerHostName |-> "", RequiredLabels |-> <<>>,
     InMaintenance |-> FALSE]

AccountOfRepo(repoName) ==
    IF repoName = "bar" THEN PrimaryAccount ELSE account

\* asked: whether Clair was asked about the manifest
Checked(row, err, blobRows, asked) ==
    [manifest |-> row, err |-> err, blobs |-> blobRows, asked |-> asked]

RECURSIVE doVulnerabilityCheck(_, _, _, _, _, _, _, _, _, _)

\* doVulnerabilityCheck(account, repo, &manifest): the manifest as it is
\* left in memory, the error, and the blobs table (t: j.timeNow(), wall:
\* time.Now(), clair: the answer of Clair, replicated: ReplicateBlob succeeds)
doVulnerabilityCheck(acc, row, manifestRows, refRows, blobRefRows, blobRows, t, wall, clair, replicated) ==
    IF acc.InMaintenance
    THEN Checked([row EXCEPT !.nextVulnerabilityCheckAt =
                                 TimeAt(t + VulnerabilityCheckInterval)], "", blobRows,
                 FALSE)
    ELSE
    LET found == VulnCheckBlobSelect(blobRows, blobRefRows, row)
        missing == {b \in found : b.storageID = ""}
    IN  IF missing # {}
        THEN LET deferred == [row EXCEPT !.nextVulnerabilityCheckAt =
                                            TimeAt(row.pushedAt + ReplicationGracePeriod)]
                 blob == CHOOSE b \in missing : TRUE
                 got == ReplicateBlob(blobRows, blob.digest, replicated)
             IN  IF deferred.nextVulnerabilityCheckAt.at < wall
                 THEN Checked(deferred, "", blobRows, FALSE)
                 ELSE IF got.err # ""
                 THEN Checked(deferred, got.err, got.rows, FALSE)
                 ELSE doVulnerabilityCheck(acc, deferred, manifestRows, refRows,
                                           blobRefRows, got.rows, t, wall, clair,
                                           replicated)
        ELSE
        LET children == StatusesOf(VulnCheckSubmanifestInfo(manifestRows, refRows,
                                                            row.digest))
            severities ==
                IF found = {} THEN children
                ELSE IF clair.state = "indexed" THEN Append(children, clair.severity)
                ELSE Append(children, UnknownSeverity)
            status == MergeSeverities(severities)
        IN  IF found # {} /\ clair.state = "unreachable"
            THEN Checked(row, "cannot reach Clair", blobRows, TRUE)
            ELSE IF found # {} /\ clair.state = "errored"
            THEN Checked(row, "Clair reports indexing of " \o row.digest \o " as errored",
                         blobRows, TRUE)
            ELSE IF found # {} /\ clair.state = "noreport"
            THEN Checked(row, "Clair reports indexing of " \o row.digest
                                \o " as finished, but vulnerability report is 404",
                         blobRows, TRUE)
            ELSE Checked([row EXCEPT
                            !.vulnerabilityStatus = status,
                            !.nextVulnerabilityCheckAt =
                                IF status = UnknownSeverity
                                THEN TimeAt(t + IndexingCheckInterval)
                                ELSE TimeAt(t + VulnerabilityCheckInterval)],
                         "", blobRows, found # {})

\* j.db.Update(&manifest): the row of the primary key is overwritten with
\* the manifest in memory
UpdateManifestRow(manifestRows, manifest) ==
    {row \in manifestRows : ~(row.repo = manifest.repo /\ row.digest = manifest.digest)}
        \cup {manifest}

\* what Clair is asked about a manifest that has no blobs: nothing
NoAnswer == [state |-> "not asked", severity |-> ""]

\* One call of CheckVulnerabilitiesForNextManifest (the clock of the host
\* is the clock of the janitor); applied: the manifest that was selected and
\* what Clair answered about it
CheckVulnerabilitiesForNextManifest(clair, replicated, updateFails) ==
    /\ \E found \in {VulnCheckSelect(manifests, now)} :
        IF found = {}
        THEN /\ ret' = Returned("CheckVulnerabilitiesForNextManifest", ErrNoRows)
             /\ applied' = NoCall
             /\ UNCHANGED <<manifests, blobs>>
        ELSE \E row \in found :
             \E out \in {doVulnerabilityCheck(AccountOfRepo(row.repo), row, manifests,
                                              mrefs, brefs, blobs, now, now, clair,
                                              replicated)} :
                /\ blobs' = out.blobs
                /\ applied' = [fn |-> "CheckVulnerabilitiesForNextManifest",
                               repo |-> row.repo, digest |-> row.digest,
                               asked |-> out.asked,
                               clair |-> IF out.asked THEN clair ELSE NoAnswer]
                /\ IF out.err # ""
                   THEN /\ ret' = Returned("CheckVulnerabilitiesForNextManifest", out.err)
                        /\ UNCHANGED manifests
                   ELSE IF updateFails
                   THEN /\ ret' = Returned("CheckVulnerabilitiesForNextManifest",
                                           UpdateFailed)
                        /\ UNCHANGED manifests
                   ELSE /\ ret' = Returned("CheckVulnerabilitiesForNextManifest", "")
                        /\ manifests' = UpdateManifestRow(manifests, out.manifest)
    /\ UNCHANGED <<account, repos, mounts, tags, mrefs, brefs, storage, lastPush, upstream,
                   sweep, now, sched, job, requests, tokenVars, clientVars>>

JanitorStored(repoName, manifestDigest) ==
    [repo |-> repoName, digest |-> manifestDigest, contents |-> ContentsOf(manifestDigest)]

\* A replica account with the image list l1 and its image m1 (of one layer)
\* in the repository "foo", and the image m2 in the repository "bar" of a
\* primary account; each manifest due or not for validation and for the
\* vulnerability check, the repository due or not for the sync
InitJanitor ==
    /\ account \in {[Name |-> "replica1", UpstreamPeerHostName |-> PeerHostname,
                     RequiredLabels |-> <<>>, InMaintenance |-> inMaintenance] :
                        inMaintenance \in BOOLEAN}
    /\ repos = {SyncRepoName, "bar"}
    /\ mounts = {}
    /\ manifests \in
         {{JanitorManifestRow("sha256:l1", OldestTime, "", check1),
           [JanitorManifestRow("sha256:m1", at2, "", check2) EXCEPT !.pushedAt = pushed],
           [JanitorManifestRow("sha256:m2", 0, "", TimeAt(0 - 10)) EXCEPT
                !.repo = "bar"]} :
            at2 \in {0, OldestTime},
            check1 \in {NullTime, TimeAt(VulnerabilityCheckInterval)},
            check2 \in {TimeAt(0 - 5), TimeAt(VulnerabilityCheckInterval)},
            pushed \in {0, OldestTime}}
    /\ tags = {}
    /\ mrefs = {ReferenceRow(SyncRepoName, "sha256:l1", "sha256:m1")}
    /\ brefs = {BlobReferenceRow(SyncRepoName, "sha256:m1", ReplicatedBlob)}
    /\ storage = {JanitorStored(SyncRepoName, "sha256:l1"),
                  JanitorStored(SyncRepoName, "sha256:m1"),
                  JanitorStored("bar", "sha256:m2")}
    /\ lastPush = NoPush
    /\ upstream \in {{"sha256:m1"}, {"sha256:l1", "sha256:m1"}}
    /\ sweep = NotStarted
    /\ now = 0
    /\ sched \in {NullTime, TimeAt(SyncInterval)}
    /\ ret = NoReturn
    /\ job = NoJob
    /\ blobs \in {{BlobRow(ReplicatedBlob, "")}, {BlobRow(ReplicatedBlob, ReplicatedBlob)}}
    /\ requests = NoRequests
    /\ applied = NoCall
    /\ cfg = [APIPublicHostname |-> LocalHostname,
              AnycastAPIPublicHostname |-> AnycastHostname,
              JWTIssuerKeys |-> <<"K1">>, AnycastJWTIssuerKeys |-> <<>>]
    /\ tok = NoToken
    /\ prov = NoProvenance
    /\ res = NoResult
    /\ session = NoSession
    /\ registry = NoRegistry

NextJanitor ==
    \/ \E updateFails \in BOOLEAN : ValidateNextManifest(updateFails)
    \/ \E probeFails, doneFails \in BOOLEAN : StartSync(probeFails, doneFails)
    \/ \E digest \in SyncDigests, dbFails \in BOOLEAN : VisitManifest(digest, dbFails)
    \/ \E sdFails \in BOOLEAN : DeleteFromStorage(sdFails)
    \/ EndOfRange
    \/ \E doneFails \in BOOLEAN : FinishSync(doneFails)
    \/ \E clair \in ClairAnswers, replicated, updateFails \in BOOLEAN :
          CheckVulnerabilitiesForNextManifest(clair, replicated, updateFails)

SpecJanitor == InitJanitor /\ [][NextJanitor]_vars

JanitorCalls ==
    {"ValidateNextManifest", "SyncManifestsInNextRepo",
     "CheckVulnerabilitiesForNextManifest"}

\* no item is eligible for the call at the current time
NothingEligible(call) ==
    IF call = "ValidateNextManifest"
    THEN \A row \in manifests : ~Outdated(row, now)
    ELSE IF call = "SyncManifestsInNextRepo"
    THEN ~SyncEligible(sched, now)
    ELSE \A row \in manifests : ~VulnCheckDue(row, now)

\* the manifests whose row is not after the step what it was before
ChangedManifests ==
    {<<row.repo, row.digest>> : row \in (manifests \ manifests') \cup (manifests' \ manifests)}

\* the call has returned in this step
JustReturned(call) ==
    /\ ret' # ret
    /\ ret'.kind = "returned"
    /\ ret'.call = call

\* rows and stored manifests of the repositories that the sync has not selected
OtherRepositories ==
    <<{row \in manifests : row.repo # SyncRepoName},
      {o \in storage : o.repo # SyncRepoName},
      {r \in mrefs : r.repo # SyncRepoName}>>

\* C16: each of ValidateNextManifest, SyncManifestsInNextRepo and
\* CheckVulnerabilitiesForNextManifest returns sql.ErrNoRows, not wrapped,
\* if and only if no item is eligible at the current time, and then changes
\* nothing in the database, the blobs or the storage; no step of any sweep
\* changes the rows of two manifests, a call of the validation or of the
\* vulnerability check changes only the row of a manifest that was eligible
\* for it and neither adds nor deletes a row, and the sync sweep leaves what
\* belongs to other repositories as it is.
C16_OneItemPerCall ==
    [][/\ \A call \in JanitorCalls :
            JustReturned(call) =>
                /\ NothingEligible(call) <=> ret'.err = ErrNoRows
                /\ NothingEligible(call) =>
                      /\ ~ret'.wrapped
                      /\ UNCHANGED <<dbVars, blobs, sched>>
       /\ (sweep.pc = "idle" /\ \A call \in JanitorCalls : NothingEligible(call))
             => UNCHANGED <<dbVars, blobs, sched>>
       /\ Cardinality(ChangedManifests) <= 1
       /\ JustReturned("ValidateNextManifest")
             => \A row \in manifests \ manifests' : Outdated(row, now)
       /\ JustReturned("CheckVulnerabilitiesForNextManifest")
             => \A row \in manifests \ manifests' : VulnCheckDue(row, now)
       /\ sweep' = sweep
             => /\ \A row \in manifests \ manifests' :
                      Outdated(row, now) \/ VulnCheckDue(row, now)
                /\ {<<row.repo, row.digest>> : row \in manifests'}
                      = {<<row.repo, row.digest>> : row \in manifests}
       /\ (sweep' # sweep \/ JustReturned("SyncManifestsInNextRepo"))
             => OtherRepositories' = OtherRepositories]_vars

\* every sweep has worked (a manifest validated, the repository synced and a
\* manifest deleted, every manifest left checked for vulnerabilities), and
\* the vulnerability check now finds nothing to do
C16_Witness ==
    /\ ret = Returned("CheckVulnerabilitiesForNextManifest", ErrNoRows)
    /\ job.item # ""
    /\ sweep.previous = "synced"
    /\ Cardinality(manifests) = 2
    /\ \A row \in manifests : ~row.nextVulnerabilityCheckAt.null
    /\ \E row \in manifests : row.vulnerabilityStatus = HighSeverity


\* ------------------------------------------------------------------
\* The sync sweep over several repositories (internal/tasks/manifests.go,
\* syncManifestRepoSelectQuery and SyncManifestsInNextRepo as one step)

\* a row of accounts with the columns that the sync reads
SyncAccount(name, hostname, url, inMaintenance) ==
    [Name |-> name, UpstreamPeerHostName |-> hostname, ExternalPeerURL |-> url,
     RequiredLabels |-> <<>>, InMaintenance |-> inMaintenance]

\* a row of repos joined with the row of its account
RepoRow(name, acct, nextManifestSyncAt) ==
    [name |-> name, account |-> acct, nextManifestSyncAt |-> nextManifestSyncAt]

\* AND (a.upstream_peer_hostname != '' OR a.external_peer_url != '')
InReplicaAccount_mutHostnameOnly(acct) ==
    acct.UpstreamPeerHostName # ""

InReplicaAccount(acct) ==
    acct.UpstreamPeerHostName # "" \/ acct.ExternalPeerURL # ""

\* ORDER BY r.next_manifest_sync_at IS NULL DESC, r.next_manifest_sync_at ASC
SyncsBefore(a, b) ==
    \/ a.nextManifestSyncAt.null
    \/ /\ ~b.nextManifestSyncAt.null
       /\ a.nextManifestSyncAt.at <= b.nextManifestSyncAt.at

\* syncManifestRepoSelectQuery: the rows that LIMIT 1 may give
SyncManifestRepoSelect(repoRows, t) ==
    LET found == {r \in repoRows : /\ SyncEligible(r.nextManifestSyncAt, t)
                                   /\ InReplicaAccount(r.account)}
    IN  {r \in found : \A other \in found : SyncsBefore(r, other)}

RECURSIVE DeletedBySync(_, _, _)

\* The loops of performManifestSync: the manifests that are deleted, pass
\* after pass, until a pass deletes nothing
DeletedBySync(shall, parents, wasDeleted) ==
    LET free == {digest \in shall \ wasDeleted :
                    ParentsWereDeleted(parents[digest], wasDeleted)}
    IN  IF free = {} THEN wasDeleted
        ELSE DeletedBySync(shall, parents, wasDeleted \cup free)

\* performManifestSync without a failure of the database, the storage or
\* the primary: what is left of the tables and of the storage, and the error
performManifestSync(manifestRows, refRows, objects, repoName, onPrimary) ==
    LET shall == ShallDeleteManifest(manifestRows, repoName, onPrimary)
        gone == DeletedBySync(shall, ParentDigestsOf(refRows, repoName), {})
    IN  [manifests |-> {row \in manifestRows :
                            ~(row.repo = repoName /\ row.digest \in gone)},
         mrefs |-> {ref \in refRows : ~(ref.repo = repoName /\ ref.parent \in gone)},
         storage |-> {o \in objects : ~(o.repo = repoName /\ o.digest \in gone)},
         err |-> IF gone = shall THEN "" ELSE StillReferenced]

\* syncManifestDoneQuery
SyncManifestDone(repoRows, repoName, t) ==
    {IF r.name = repoName THEN [r EXCEPT !.nextManifestSyncAt = t] ELSE r :
        r \in repoRows}

\* One call of SyncManifestsInNextRepo (doneFails: the UPDATE of the
\* schedule returns an error)
SyncManifestsInNextRepo(doneFails) ==
    /\ \E found \in {SyncManifestRepoSelect(repos, now)} :
        IF found = {}
        THEN /\ ret' = Returned("SyncManifestsInNextRepo", ErrNoRows)
             /\ applied' = [fn |-> "SyncManifestsInNextRepo", repo |-> "",
                            probed |-> FALSE]
             /\ UNCHANGED <<repos, manifests, mrefs, brefs, storage>>
        ELSE \E repo \in found :
             \E out \in {IF repo.account.InMaintenance
                         THEN [manifests |-> manifests, mrefs |-> mrefs,
                               storage |-> storage, err |-> ""]
                         ELSE performManifestSync(manifests, mrefs, storage,
                                                  repo.name, upstream)} :
                /\ applied' = [fn |-> "SyncManifestsInNextRepo", repo |-> repo.name,
                               probed |-> ~repo.account.InMaintenance
                                            /\ \E row \in manifests : row.repo = repo.name]
                /\ manifests' = out.manifests
                /\ mrefs' = out.mrefs
                /\ brefs' = {ref \in brefs :
                                \E row \in out.manifests :
                                    row.repo = ref.repo /\ row.digest = ref.digest}
                /\ storage' = out.storage
                /\ IF out.err # ""
                   THEN /\ ret' = Returned("SyncManifestsInNextRepo", out.err)
                        /\ UNCHANGED repos
                   ELSE IF doneFails
                   THEN /\ ret' = Returned("SyncManifestsInNextRepo", "cannot update repos")
                        /\ UNCHANGED repos
                   ELSE /\ ret' = Returned("SyncManifestsInNextRepo", "")
                        /\ repos' = SyncManifestDone(repos, repo.name, NextManifestSyncAt(now))
    /\ UNCHANGED <<account, mounts, tags, lastPush, upstream, sweep, now, sched,
                   job, replicaVars, tokenVars, clientVars>>

\* the schedules that a repository starts with
SyncSchedules ==
    {NullTime, TimeAt(0 - 20), TimeAt(0 - 10), TimeAt(SyncInterval)}

\* Two replica accounts (one with an upstream peer hostname, in maintenance
\* or not, one with an external peer URL) and a primary account, with a
\* repository each; the image list l1 with its image m1 in the first, the
\* image m1 in the others
InitRepoSelect ==
    /\ repos \in
         {{RepoRow("foo", SyncAccount("replica1", PeerHostname, "", inMaintenance), next1),
           RepoRow("baz", SyncAccount("replica2", "", ExternalPeerURL, FALSE), next2),
           RepoRow("bar", SyncAccount("test1", "", "", FALSE), next3)} :
            inMaintenance \in BOOLEAN, next1 \in SyncSchedules,
            next2 \in SyncSchedules, next3 \in SyncSchedules}
    /\ manifests = {ManifestRow("foo", "sha256:l1"), ManifestRow("foo", "sha256:m1"),
                    ManifestRow("baz", "sha256:m1"), ManifestRow("bar", "sha256:m1")}
    /\ mrefs = {ReferenceRow("foo", "sha256:l1", "sha256:m1")}
    /\ brefs = {}
    /\ storage = {[repo |-> row.repo, digest |-> row.digest,
                   contents |-> ContentsOf(row.digest)] :
                    row \in {ManifestRow("foo", "sha256:l1"), ManifestRow("foo", "sha256:m1"),
                             ManifestRow("baz", "sha256:m1"), ManifestRow("bar", "sha256:m1")}}
    /\ upstream \in SUBSET {"sha256:l1", "sha256:m1"}
    /\ account = NoAccount
    /\ mounts = {}
    /\ tags = {}
    /\ lastPush = NoPush
    /\ sweep = IdleSweep
    /\ now = 0
    /\ sched = NullTime
    /\ ret = NoReturn
    /\ job = NoJob
    /\ blobs = {}
    /\ requests = NoRequests
    /\ applied = NoCall
    /\ cfg = [APIPublicHostname |-> LocalHostname,
              AnycastAPIPublicHostname |-> AnycastHostname,
              JWTIssuerKeys |-> <<"K1">>, AnycastJWTIssuerKeys |-> <<>>]
    /\ tok = NoToken
    /\ prov = NoProvenance
    /\ res = NoResult
    /\ session = NoSession
    /\ registry = NoRegistry

NextRepoSelect ==
    \E doneFails \in BOOLEAN : SyncManifestsInNextRepo(doneFails)

SpecRepoSelect == InitRepoSelect /\ [][NextRepoSelect]_vars

\* the replica repositories that are due
DueReplicas ==
    {r \in repos :
        /\ r.account.UpstreamPeerHostName # "" \/ r.account.ExternalPeerURL # ""
        /\ r.nextManifestSyncAt.null \/ r.nextManifestSyncAt.at < now}

\* rows and storage objects of the repositories that are not the named one
OutsideOf(repoName) ==
    <<{row \in manifests : row.repo # repoName}, {o \in storage : o.repo # repoName},
      {ref \in mrefs : ref.repo # repoName}, {r \in repos : r.name # repoName}>>

\* rows and storage objects of the repositories of primary accounts
InPrimaryAccounts ==
    LET primary == {r.name : r \in {x \in repos :
                        x.account.UpstreamPeerHostName = "" /\ x.account.ExternalPeerURL = ""}}
    IN  <<{row \in manifests : row.repo \in primary},
          {o \in storage : o.repo \in primary}>>

\* C21: a call of SyncManifestsInNextRepo selects no repository exactly when
\* no repository of a replica account (upstream peer hostname or external
\* peer URL set) has next_manifest_sync_at null or before now; else it
\* selects such a repository, one without next_manifest_sync_at if there is
\* one, else one with the smallest next_manifest_sync_at; it changes nothing
\* outside of the selected repository, and the manifests of repositories of
\* primary accounts stay as they are.
C21_SyncSelection ==
    [][/\ applied'.fn = "SyncManifestsInNextRepo"
       /\ IF DueReplicas = {}
          THEN /\ applied'.repo = ""
               /\ UNCHANGED <<repos, manifests, mrefs, storage>>
          ELSE \E r \in DueReplicas :
                /\ applied'.repo = r.name
                /\ (\E other \in DueReplicas : other.nextManifestSyncAt.null)
                      => r.nextManifestSyncAt.null
                /\ \A other \in DueReplicas :
                      \/ r.nextManifestSyncAt.null
                      \/ r.nextManifestSyncAt.at <= other.nextManifestSyncAt.at
       /\ \A name \in {"", "foo", "baz", "bar"} :
            applied'.repo = name => OutsideOf(name)' = OutsideOf(name)
       /\ InPrimaryAccounts' = InPrimaryAccounts]_vars

\* the repository of the account with the external peer URL was synced
\* first and has lost its manifest, then the other replica repository,
\* which has lost the list and then its image; the repository of the
\* primary account, due as well, was passed over and has its manifest
C21_Witness ==
    /\ applied.fn = "SyncManifestsInNextRepo"
    /\ applied.repo = "foo"
    /\ ret = Returned("SyncManifestsInNextRepo", "")
    /\ RepoRow("baz", SyncAccount("replica2", "", ExternalPeerURL, FALSE),
               TimeAt(SyncInterval)) \in repos
    /\ RepoRow("bar", SyncAccount("test1", "", "", FALSE), NullTime) \in repos
    /\ ~\E row \in manifests : row.repo = "baz"
    /\ manifests = {ManifestRow("bar", "sha256:m1")}


\* ------------------------------------------------------------------
\* The vulnerability sweep by itself: the manifest list l1 with the images
\* m1 (one layer) and m2 (no blob, no child) in one repository, the images
\* with a vulnerability status stored by an earlier check

InitVulnCheck ==
    /\ account \in {[Name |-> "replica1", UpstreamPeerHostName |-> PeerHostname,
                     RequiredLabels |-> <<>>, InMaintenance |-> inMaintenance] :
                        inMaintenance \in BOOLEAN}
    /\ repos = {SyncRepoName}
    /\ mounts = {}
    /\ manifests \in
         {{[JanitorManifestRow("sha256:l1", 0, "", check1) EXCEPT
                !.mediaType = MediaTypeList],
           [JanitorManifestRow("sha256:m1", 0, "", check2) EXCEPT
                !.pushedAt = pushed, !.vulnerabilityStatus = status1],
           [JanitorManifestRow("sha256:m2", 0, "", check3) EXCEPT
                !.vulnerabilityStatus = status2]} :
            check1 \in {NullTime, TimeAt(0 - 5)},
            check2 \in {NullTime, TimeAt(VulnerabilityCheckInterval)},
            check3 \in {TimeAt(0 - 10), TimeAt(VulnerabilityCheckInterval)},
            status1 \in {LowSeverity, PendingSeverity},
            status2 \in {HighSeverity, PendingSeverity},
            pushed \in {0, 0 - ReplicationGracePeriod, OldestTime}}
    /\ tags = {}
    /\ mrefs = {ReferenceRow(SyncRepoName, "sha256:l1", "sha256:m1"),
                ReferenceRow(SyncRepoName, "sha256:l1", "sha256:m2")}
    /\ brefs = {BlobReferenceRow(SyncRepoName, "sha256:m1", ReplicatedBlob)}
    /\ storage = {JanitorStored(SyncRepoName, "sha256:l1"),
                  JanitorStored(SyncRepoName, "sha256:m1"),
                  JanitorStored(SyncRepoName, "sha256:m2")}
    /\ lastPush = NoPush
    /\ upstream = {"sha256:l1", "sha256:m1", "sha256:m2"}
    /\ sweep = NotStarted
    /\ now = 0
    /\ sched = TimeAt(SyncInterval)
    /\ ret = NoReturn
    /\ job = NoJob
    /\ blobs \in {{BlobRow(ReplicatedBlob, "")}, {BlobRow(ReplicatedBlob, ReplicatedBlob)}}
    /\ requests = NoRequests
    /\ applied = NoCall
    /\ cfg = [APIPublicHostname |-> LocalHostname,
              AnycastAPIPublicHostname |-> AnycastHostname,
              JWTIssuerKeys |-> <<"K1">>, AnycastJWTIssuerKeys |-> <<>>]
    /\ tok = NoToken
    /\ prov = NoProvenance
    /\ res = NoResult
    /\ session = NoSession
    /\ registry = NoRegistry

\* the answers of Clair, and a report whose greatest severity is Unknown
ScannerAnswers ==
    ClairAnswers \cup {[state |-> "indexed", severity |-> UnknownSeverity]}

NextVulnCheck ==
    \E clair \in ScannerAnswers, replicated, updateFails \in BOOLEAN :
        CheckVulnerabilitiesForNextManifest(clair, replicated, updateFails)

SpecVulnCheck == InitVulnCheck /\ [][NextVulnCheck]_vars

\* the row of the manifest that the call of this step has selected
SelectedIn(manifestRows) ==
    CHOOSE row \in manifestRows :
        row.repo = applied'.repo /\ row.digest = applied'.digest

\* the blobs that the selected manifest refers to
SelectedBlobs ==
    {ref.blob : ref \in {r \in brefs : r.repo = applied'.repo /\ r.digest = applied'.digest}}

\* the stored vulnerability statuses of the children of the selected manifest
ChildStatuses ==
    {m.vulnerabilityStatus :
        m \in {x \in manifests :
                  /\ x.repo = applied'.repo
                  /\ \E r \in mrefs : /\ r.repo = applied'.repo
                                      /\ r.parent = applied'.digest
                                      /\ r.child = x.digest}}

\* what the scanner contributes: nothing for a manifest without blobs, the
\* severity of its report, or Unknown while it has no report yet
ScannerStatuses ==
    IF SelectedBlobs = {} THEN {}
    ELSE IF applied'.clair.state = "indexed" THEN {applied'.clair.severity}
    ELSE {UnknownSeverity}

\* the greatest of the severities, Clean if there is none
Merged(sevs) ==
    IF sevs = {} THEN CleanSeverity
    ELSE CHOOSE x \in sevs : \A y \in sevs : SeverityRank(y) <= SeverityRank(x)

\* the check of this step went through to the end: no error, the account
\* not in maintenance, every blob of the manifest in the storage
CheckCompleted ==
    /\ ret'.err = ""
    /\ ~AccountOfRepo(applied'.repo).InMaintenance
    /\ \A b \in blobs' : b.digest \in SelectedBlobs => b.storageID # ""

\* C30: when a vulnerability check completes, the stored vuln_status of the
\* manifest is the merge of the stored statuses of its children and of what
\* the scanner reports on it; the scanner is asked only about a manifest
\* that has a blob, so the status of a manifest list is the merge of its
\* children alone and a manifest with neither blobs nor children is clean.
C30_VulnerabilityResult ==
    [][applied'.fn = "CheckVulnerabilitiesForNextManifest" =>
          /\ applied'.asked => SelectedBlobs # {}
          /\ CheckCompleted =>
                /\ SelectedIn(manifests').vulnerabilityStatus
                      = Merged(ChildStatuses \cup ScannerStatuses)
                /\ SelectedBlobs = {} =>
                      /\ ~applied'.asked
                      /\ SelectedIn(manifests').vulnerabilityStatus = Merged(ChildStatuses)
                /\ (SelectedBlobs = {} /\ ChildStatuses = {}) =>
                      SelectedIn(manifests').vulnerabilityStatus = CleanSeverity]_vars

\* the list was checked when its children had the statuses Low and High:
\* it is High, and the scanner was not asked
C30_Witness ==
    /\ applied.fn = "CheckVulnerabilitiesForNextManifest"
    /\ applied.digest = "sha256:l1"
    /\ ~applied.asked
    /\ ret = Returned("CheckVulnerabilitiesForNextManifest", "")
    /\ \E row \in manifests :
          row.digest = "sha256:m1" /\ row.vulnerabilityStatus = LowSeverity
    /\ \E row \in manifests :
          row.digest = "sha256:m2" /\ row.vulnerabilityStatus = HighSeverity
    /\ \E row \in manifests :
          row.digest = "sha256:l1" /\ row.vulnerabilityStatus = HighSeverity

\* the call of this step returned nil after selecting a manifest
CheckReturnedNil ==
    /\ applied'.fn = "CheckVulnerabilitiesForNextManifest"
    /\ ret' = Returned("CheckVulnerabilitiesForNextManifest", "")

\* C31: a check that returns nil reschedules the manifest: when the scanner
\* says that indexing is still in progress, vuln_status becomes pending and
\* the next check is in 2 minutes; when the scanner has a report, the next
\* check is in 1 hour; when the account is in maintenance, the next check
\* is in 1 hour, the scanner is not asked and vuln_status stays as it was.
C31_Rescheduling ==
    [][CheckReturnedNil =>
          /\ (applied'.asked /\ applied'.clair.state = "indexing") =>
                /\ SelectedIn(manifests').vulnerabilityStatus = PendingSeverity
                /\ SelectedIn(manifests').nextVulnerabilityCheckAt
                      = TimeAt(now + IndexingCheckInterval)
          /\ (applied'.asked /\ applied'.clair.state = "indexed") =>
                SelectedIn(manifests').nextVulnerabilityCheckAt
                    = TimeAt(now + VulnerabilityCheckInterval)
          /\ AccountOfRepo(applied'.repo).InMaintenance =>
                /\ ~applied'.asked
                /\ SelectedIn(manifests').vulnerabilityStatus
                      = SelectedIn(manifests).vulnerabilityStatus
                /\ SelectedIn(manifests').nextVulnerabilityCheckAt
                      = TimeAt(now + VulnerabilityCheckInterval)]_vars

\* the scanner failed in the call of this step: the state or the report
\* could not be fetched, or the indexing is reported as errored
ScannerFailed ==
    /\ applied'.fn = "CheckVulnerabilitiesForNextManifest"
    /\ applied'.asked
    /\ applied'.clair.state \in {"unreachable", "errored", "noreport"}

\* C32: when the scanner fails on the selected manifest, the call returns
\* the error and the manifest is stored with its next check in 1 hour, so
\* that the next call does not have to select it again.
C32_ScannerErrorReschedules ==
    [][ScannerFailed =>
          /\ ret'.kind = "returned"
          /\ ret'.err # ""
          /\ SelectedIn(manifests').nextVulnerabilityCheckAt
                = TimeAt(now + VulnerabilityCheckInterval)
          /\ SelectedIn(manifests') \notin VulnCheckSelect(manifests', now)]_vars

\* a blob of the selected manifest has no storage ID when the call of this
\* step begins (before / after the call)
BlobMissing(blobRows) ==
    \E b \in blobRows : b.digest \in SelectedBlobs /\ b.storageID = ""

\* the call of this step found a blob of the selected manifest missing
\* (the account not being in maintenance)
FoundBlobMissing ==
    /\ applied'.fn = "CheckVulnerabilitiesForNextManifest"
    /\ ~AccountOfRepo(applied'.repo).InMaintenance
    /\ BlobMissing(blobs)

\* the manifest is inside its 10 minutes after pushed_at
InsideGracePeriod(row) ==
    now <= row.pushedAt + ReplicationGracePeriod

C35_NoStarvation ==
    [][CheckReturnedNil =>
          /\ ~SelectedIn(manifests').nextVulnerabilityCheckAt.null
          /\ now < SelectedIn(manifests').nextVulnerabilityCheckAt.at
          /\ SelectedIn(manifests') \notin VulnCheckSelect(manifests', now)]_vars


\* ------------------------------------------------------------------
\* The vulnerability sweep over two repositories: the list l1 with its
\* child m2 in "foo"; in "bar" either the manifest m2 as well (pushed there
\* on its own, with its own stored status), or the list l1 as well, there
\* with the child m1

CrossRepoRow(repoName, manifestDigest, status, nextCheckAt) ==
    [JanitorManifestRow(manifestDigest, 0, "", nextCheckAt) EXCEPT
        !.repo = repoName, !.vulnerabilityStatus = status]

InitCrossRepo ==
    /\ account \in {[Name |-> "replica1", UpstreamPeerHostName |-> PeerHostname,
                     RequiredLabels |-> <<>>, InMaintenance |-> inMaintenance] :
                        inMaintenance \in BOOLEAN}
    /\ repos = {SyncRepoName, "bar"}
    /\ mounts = {}
    /\ manifests \in
         {{[CrossRepoRow(SyncRepoName, "sha256:l1", PendingSeverity, check1) EXCEPT
                !.mediaType = MediaTypeList],
           CrossRepoRow(SyncRepoName, "sha256:m2", status1, check2)} \cup other :
            check1 \in {NullTime, TimeAt(0 - 5)},
            check2 \in {TimeAt(0 - 10), TimeAt(VulnerabilityCheckInterval)},
            status1 \in {LowSeverity, PendingSeverity},
            other \in
                {{CrossRepoRow("bar", "sha256:m2", status2, check3)} :
                    status2 \in {LowSeverity, HighSeverity},
                    check3 \in {TimeAt(0 - 10), TimeAt(VulnerabilityCheckInterval)}}
                \cup
                {{[CrossRepoRow("bar", "sha256:l1", PendingSeverity, check3) EXCEPT
                      !.mediaType = MediaTypeList],
                  CrossRepoRow("bar", "sha256:m1", CriticalSeverity,
                               TimeAt(VulnerabilityCheckInterval))} :
                    check3 \in {TimeAt(0 - 10), TimeAt(VulnerabilityCheckInterval)}}}
    /\ tags = {}
    /\ mrefs = {ReferenceRow(SyncRepoName, "sha256:l1", "sha256:m2")} \cup
                   {ReferenceRow("bar", "sha256:l1", "sha256:m1") : row \in
                       {x \in manifests : x.repo = "bar" /\ x.digest = "sha256:l1"}}
    /\ brefs = {}
    /\ storage = {JanitorStored(row.repo, row.digest) : row \in manifests}
    /\ lastPush = NoPush
    /\ upstream = {"sha256:l1", "sha256:m2"}
    /\ sweep = NotStarted
    /\ now = 0
    /\ sched = TimeAt(SyncInterval)
    /\ ret = NoReturn
    /\ job = NoJob
    /\ blobs = {}
    /\ requests = NoRequests
    /\ applied = NoCall
    /\ cfg = [APIPublicHostname |-> LocalHostname,
              AnycastAPIPublicHostname |-> AnycastHostname,
              JWTIssuerKeys |-> <<"K1">>, AnycastJWTIssuerKeys |-> <<>>]
    /\ tok = NoToken
    /\ prov = NoProvenance
    /\ res = NoResult
    /\ session = NoSession
    /\ registry = NoRegistry

NextCrossRepo ==
    \E clair \in ClairAnswers, replicated, updateFails \in BOOLEAN :
        CheckVulnerabilitiesForNextManifest(clair, replicated, updateFails)

SpecCrossRepo == InitCrossRepo /\ [][NextCrossRepo]_vars

\* C38: the vuln_status that a completed check stores is the merge of the
\* scanner's contribution and of the stored statuses of the children that
\* the manifest has in its own repository: rows of other repositories
\* (the same digest there, a reference row with the same parent digest
\* there) have no part in it.
C38_SameRepositoryChildren ==
    [][(applied'.fn = "CheckVulnerabilitiesForNextManifest" /\ CheckCompleted) =>
          SelectedIn(manifests').vulnerabilityStatus
              = Merged(ScannerStatuses \cup ChildStatuses)]_vars


\* ------------------------------------------------------------------
\* The vulnerability sweep and the validation sweep as two threads of the
\* janitor: CheckVulnerabilitiesForNextManifest in two steps, from the
\* SELECT to the return of doVulnerabilityCheck, and the UPDATE; the
\* manifest that the call holds in memory between the two is in applied

\* no call of CheckVulnerabilitiesForNextManifest is under way
NoCheckUnderWay ==
    IF applied.fn = "CheckVulnerabilitiesForNextManifest" THEN applied.pc = "done" ELSE TRUE

\* lines 317-341: the manifest is selected and checked in memory
SelectAndCheck(clair, replicated) ==
    /\ NoCheckUnderWay
    /\ \E found \in {VulnCheckSelect(manifests, now)} :
        IF found = {}
        THEN /\ ret' = Returned("CheckVulnerabilitiesForNextManifest", ErrNoRows)
             /\ applied' = NoCall
             /\ UNCHANGED blobs
        ELSE \E row \in found :
             \E out \in {doVulnerabilityCheck(AccountOfRepo(row.repo), row, manifests,
                                              mrefs, brefs, blobs, now, now, clair,
                                              replicated)} :
                /\ blobs' = out.blobs
                /\ IF out.err # ""
                   THEN /\ ret' = Returned("CheckVulnerabilitiesForNextManifest", out.err)
                        /\ applied' = NoCall
                   ELSE /\ ret' = NoReturn
                        /\ applied' = [fn |-> "CheckVulnerabilitiesForNextManifest",
                                       pc |-> "update", read |-> row,
                                       manifest |-> out.manifest]
    /\ UNCHANGED <<account, repos, mounts, manifests, tags, mrefs, brefs, storage, lastPush,
                   upstream, sweep, now, sched, job, requests, tokenVars, clientVars>>

\* lines 342-343: j.db.Update(&manifest)
WriteBack(updateFails) ==
    /\ applied.fn = "CheckVulnerabilitiesForNextManifest"
    /\ applied.pc = "update"
    /\ applied' = [applied EXCEPT !.pc = "done"]
    /\ IF updateFails
       THEN /\ ret' = Returned("CheckVulnerabilitiesForNextManifest", UpdateFailed)
            /\ UNCHANGED manifests
       ELSE /\ ret' = Returned("CheckVulnerabilitiesForNextManifest", "")
            /\ manifests' = UpdateManifestRow(manifests, applied.manifest)
    /\ UNCHANGED <<account, repos, mounts, tags, mrefs, brefs, storage, lastPush, upstream,
                   sweep, now, sched, job, blobs, requests, tokenVars, clientVars>>

NextLostUpdate ==
    \/ \E clair \in ClairAnswers, replicated \in BOOLEAN : SelectAndCheck(clair, replicated)
    \/ \E updateFails \in BOOLEAN : WriteBack(updateFails)
    \/ \E updateFails \in BOOLEAN : ValidateNextManifest(updateFails)

SpecLostUpdate == InitJanitor /\ [][NextLostUpdate]_vars

\* the row of the manifest that the vulnerability sweep holds in memory
RowInDB(manifestRows) ==
    CHOOSE row \in manifestRows :
        row.repo = applied.manifest.repo /\ row.digest = applied.manifest.digest

\* C37: the UPDATE of the vulnerability sweep changes nothing but
\* vuln_status and next_vuln_check_at of its manifest: what the validation
\* sweep has written to validated_at and validation_error_message since the
\* row was read is still there afterwards.
C37_NoLostUpdate ==
    [][(applied.fn = "CheckVulnerabilitiesForNextManifest" /\ applied.pc = "update"
            /\ applied'.pc = "done") =>
          /\ RowInDB(manifests').validatedAt = RowInDB(manifests).validatedAt
          /\ RowInDB(manifests').validationErrorMessage
                = RowInDB(manifests).validationErrorMessage
          /\ manifests' \ {RowInDB(manifests')} = manifests \ {RowInDB(manifests)}]_vars


\* ------------------------------------------------------------------
\* What a call of SyncManifestsInNextRepo that returns an error leaves
\* behind (SpecSync)

\* the call of this step returns an error
SyncReturnsError ==
    /\ sweep'.run = sweep.run + 1
    /\ ret'.call = "SyncManifestsInNextRepo"
    /\ ret'.err \notin {"", ErrNoRows}

\* C36 as claimed: when SyncManifestsInNextRepo returns an error, the call
\* has deleted no manifest row and no storage object, and
\* next_manifest_sync_at is what it was.
C36_AllOrNothing ==
    [][SyncReturnsError =>
          /\ sweep.log = <<>>
          /\ sweep.manifestWasDeleted = {}
          /\ sched' = sched]_vars

\* the digests whose row the call has deleted but whose storage object it
\* has not
RowOnlyDeleted == Elements(sweep.log) \ sweep.manifestWasDeleted

\* C36 (amended): when SyncManifestsInNextRepo returns an error,
\* next_manifest_sync_at is what it was; what the call deleted before the
\* error stays deleted, and it is this: rows of manifests of the deletion
\* set only, each after its parents and each with its storage object,
\* except that the manifest whose
\* storage deletion was the error has lost its row alone; the error for a
\* deletion set that cannot go on names all of the deletion set that is
\* left, and that is not empty.
C36_FailureLeavesPartialSync ==
    [][SyncReturnsError =>
          /\ sched' = sched
          /\ dbVars' = dbVars
          /\ Elements(sweep.log) \subseteq sweep.shallDelete0
          /\ sweep.manifestWasDeleted \subseteq Elements(sweep.log)
          /\ \A i \in 1..Len(sweep.log) :
                \A ref \in sweep.refs0 :
                    ref.child = sweep.log[i] =>
                        \E j \in 1..(i - 1) : sweep.log[j] = ref.parent
          /\ IF sweep.err = "cannot remove deleted manifest from storage"
             THEN RowOnlyDeleted = {sweep.log[Len(sweep.log)]}
             ELSE RowOnlyDeleted = {}
          /\ sweep.err = StillReferenced =>
                /\ sweep.undeleted = sweep.shallDelete0 \ Elements(sweep.log)
                /\ sweep.undeleted # {}]_vars

\* the call has returned the error for a deletion set that cannot go on,
\* after deleting the list l1 for good; the image m1 is still here, and the
\* repository is as due as before
C36_Witness ==
    /\ ret = Returned("SyncManifestsInNextRepo", StillReferenced)
    /\ sweep.pc = "idle"
    /\ sweep.previous = "stuck"
    /\ sched = NullTime
    /\ ~\E row \in manifests : row.digest = "sha256:l1"
    /\ ~\E object \in storage : object.digest = "sha256:l1"
    /\ \E row \in manifests : row.digest = "sha256:m1"
    /\ "sha256:m1" \notin upstream


\* ------------------------------------------------------------------
\* The sync sweep running by itself, every step of the deletion loop taken
\* in the end (the thread of the sweep is not stopped; a range over a map
\* comes to each key once)

NextSyncFair ==
    \/ \E probeFails, doneFails \in BOOLEAN : StartSync(probeFails, doneFails)
    \/ \E digest \in SyncDigests, dbFails \in BOOLEAN : VisitManifest(digest, dbFails)
    \/ \E sdFails \in BOOLEAN : DeleteFromStorage(sdFails)
    \/ EndOfRange
    \/ \E doneFails \in BOOLEAN : FinishSync(doneFails)

SpecSyncFair ==
    /\ InitSync
    /\ [][NextSyncFair]_vars
    /\ WF_vars(\E digest \in SyncDigests, dbFails \in BOOLEAN : VisitManifest(digest, dbFails))
    /\ WF_vars(\E sdFails \in BOOLEAN : DeleteFromStorage(sdFails))
    /\ WF_vars(EndOfRange)

\* the deletion loop is running / is over
InDeletionLoop == sweep.pc \in {"range", "storage"}

DeletionLoopOver == sweep.pc \in {"done", "failed"}

\* a pass of the outer loop ends in this step
PassEnds == sweep.pc = "range" /\ sweep.pending = {} /\ sweep'.pc # "idle"

\* C40: the deletion loop of performManifestSync comes to an end for every
\* deletion set and every reference graph (cycles and parents outside of
\* the set included); a pass that is followed by another one has deleted a
\* manifest and left a smaller, non-empty set, a pass that deleted nothing
\* ends the loop with the error, and the loop ends without error only when
\* the set is empty.
C40_DeletionLoopTerminates ==
    /\ InDeletionLoop ~> DeletionLoopOver
    /\ [][PassEnds =>
            /\ sweep'.pc = "range" =>
                  /\ sweep.deletedSomething
                  /\ sweep.manifestWasDeleted # {}
                  /\ sweep'.pending = sweep.shallDelete0 \ sweep.manifestWasDeleted
                  /\ sweep'.pending # {}
            /\ ~sweep.deletedSomething =>
                  (sweep'.pc = "failed" /\ sweep'.err = StillReferenced)
            /\ sweep'.pc = "done" =>
                  (sweep.shallDeleteManifest = {} /\ sweep'.err = "")]_vars
    /\ [](sweep.pc = "done" => sweep.shallDeleteManifest = {})

\* the loop has ended with the error on a deletion set of three manifests
\* of which two refer to each other, after deleting the third
C40_Witness ==
    /\ sweep.pc = "failed"
    /\ sweep.err = StillReferenced
    /\ sweep.shallDelete0 = SyncDigests
    /\ sweep.refs0 = {ReferenceRow(SyncRepoName, "sha256:l1", "sha256:m1"),
                      ReferenceRow(SyncRepoName, "sha256:m1", "sha256:l1")}
    /\ sweep.log = <<"sha256:m2">>
    /\ sweep.undeleted = {"sha256:l1", "sha256:m1"}


(***************************************************************************)
(*            VALIDATION SESSION (internal/client/validate.go)            *)
(***************************************************************************)

\* the repositories that RepoClients talk to: two on one host, one of the
\* same name on another host
RepoClients ==
    {[Host |-> "h1.example.org", RepoName |-> "foo"],
     [Host |-> "h1.example.org", RepoName |-> "foo/sub"],
     [Host |-> "h2.example.org", RepoName |-> "foo"]}

FirstClient == [Host |-> "h1.example.org", RepoName |-> "foo"]

\* a manifest list for two platforms, and its two images, which share a layer
ClientManifestBytes == {"bytes-list", "bytes-amd", "bytes-arm"}

ClientDigestOf(contents) ==
    CASE contents = "bytes-list" -> "sha256:list"
      [] contents = "bytes-amd" -> "sha256:amd"
      [] contents = "bytes-arm" -> "sha256:arm"
      [] OTHER -> "sha256:other"

ClientBlobDigests == {"sha256:cfga", "sha256:cfgb", "sha256:layer"}

Platforms == {"amd64", "arm64"}

\* keppel.ParseManifest: the parsed manifest and the digest of its bytes
ParseManifest(contents) ==
    CASE contents = "bytes-list" ->
            [err |-> "", Digest |-> ClientDigestOf(contents), Blobs |-> <<>>,
             Manifests |-> <<[Digest |-> "sha256:amd", Platform |-> "amd64"],
                             [Digest |-> "sha256:arm", Platform |-> "arm64"]>>]
      [] contents = "bytes-amd" ->
            [err |-> "", Digest |-> ClientDigestOf(contents),
             Blobs |-> <<"sha256:cfga", "sha256:layer">>, Manifests |-> <<>>]
      [] contents = "bytes-arm" ->
            [err |-> "", Digest |-> ClientDigestOf(contents),
             Blobs |-> <<"sha256:cfgb", "sha256:layer">>, Manifests |-> <<>>]
      [] OTHER ->
            [err |-> "manifest invalid", Digest |-> "", Blobs |-> <<>>,
             Manifests |-> <<>>]

\* manifest.BlobReferences(): the digests of config and layers
BlobReferences(manifest) == manifest.Blobs

\* PlatformFilter.Includes: the empty filter lets every platform through
Includes(platformFilter, platform) ==
    platformFilter = {} \/ platform \in platformFilter

\* manifest.ManifestReferences(platformFilter): the constituent manifests
\* for the platforms of the filter
FilteredManifestReferences(manifest, platformFilter) ==
    SelectSeq(manifest.Manifests, LAMBDA desc : Includes(platformFilter, desc.Platform))

PlatformFilters == {{}, {"amd64"}, {"arm64"}}

\* reference.String(): the tag name or the digest
ReferenceString(reference) ==
    IF IsTag(reference) THEN reference.Tag ELSE reference.Digest

\* fmt.Sprintf("%s/%s/%s", c.Host, c.RepoName, digestOrTagName)
validationCacheKey(c, digestOrTagName) ==
    c.Host \o "/" \o c.RepoName \o "/" \o digestOrTagName

\* what a repository holds: the contents behind each reference ("" when
\* the manifest is not there), and for each blob whether its bytes are
\* the right ones
RepositoryWith(missingManifests, unparsable, corruptBlobs, missingBlobs) ==
    [manifest |->
        [ref \in {"latest", "sha256:list", "sha256:amd", "sha256:arm"} |->
            IF ref \in missingManifests THEN ""
            ELSE IF ref \in unparsable THEN "bytes-bad"
            ELSE IF ref \in {"latest", "sha256:list"} THEN "bytes-list"
            ELSE IF ref = "sha256:amd" THEN "bytes-amd" ELSE "bytes-arm"],
     blob |->
        [d \in ClientBlobDigests |->
            IF d \in missingBlobs THEN "missing"
            ELSE IF d \in corruptBlobs THEN "corrupt" ELSE "ok"]]

\* c.DownloadManifest(reference, nil)
DownloadManifest(c, reference) ==
    LET contents == registry[c].manifest[ReferenceString(reference)]
    IN  IF contents = "" THEN [err |-> "manifest unknown", contents |-> ""]
        ELSE [err |-> "", contents |-> contents]

\* c.DownloadBlob(blobDigest) and the digest of what is read from it
DownloadBlob(c, blobDigest) ==
    LET held == registry[c].blob[blobDigest]
    IN  IF held = "missing" THEN [err |-> "blob unknown", actualDigest |-> ""]
        ELSE IF held = "corrupt" THEN [err |-> "", actualDigest |-> "sha256:other"]
        ELSE [err |-> "", actualDigest |-> blobDigest]

\* the session while a call runs on it: isValid, the error so far, and the
\* cache keys of what the call has downloaded, in order
Running(isValid) == [isValid |-> isValid, err |-> "", downloads |-> <<>>]

Failed(st, err) == [st EXCEPT !.err = err]

Downloaded(st, key) == [st EXCEPT !.downloads = Append(@, key)]

doValidateBlobContents_mutNoDigestCheck(c, blobDigest, st) ==
    [Downloaded(st, validationCacheKey(c, blobDigest)) EXCEPT
        !.isValid = @ \cup {validationCacheKey(c, blobDigest)}]

\* RepoClient.doValidateBlobContents
doValidateBlobContents(c, blobDigest, st) ==
    LET cacheKey == validationCacheKey(c, blobDigest)
        got == DownloadBlob(c, blobDigest)
        st1 == Downloaded(st, cacheKey)
    IN  IF cacheKey \in st.isValid THEN st
        ELSE IF got.err # "" THEN Failed(st1, got.err)
        ELSE IF got.actualDigest # blobDigest
        THEN Failed(st1, "actual digest is " \o got.actualDigest)
        ELSE [st1 EXCEPT !.isValid = @ \cup {cacheKey}]

RECURSIVE ValidateBlobReferences(_, _, _)

\* for _, desc := range manifest.BlobReferences() { ... return err }
ValidateBlobReferences(c, descs, st) ==
    IF descs = <<>> \/ st.err # "" THEN st
    ELSE ValidateBlobReferences(c, Tail(descs), doValidateBlobContents(c, Head(descs), st))

RECURSIVE doValidateManifest(_, _, _, _)

RECURSIVE ValidateManifestReferences(_, _, _, _)

\* for _, desc := range manifest.ManifestReferences(platformFilter) { ... return err }
ValidateManifestReferences(c, descs, st, platformFilter) ==
    IF descs = <<>> \/ st.err # "" THEN st
    ELSE ValidateManifestReferences(c, Tail(descs),
             doValidateManifest(c, DigestReference(Head(descs).Digest), st, platformFilter),
             platformFilter)

\* RepoClient.doValidateManifest
doValidateManifest(c, reference, st, platformFilter) ==
    LET cacheKey == validationCacheKey(c, ReferenceString(reference))
        got == DownloadManifest(c, reference)
        manifest == ParseManifest(got.contents)
        st1 == Downloaded(st, cacheKey)
        st2 == ValidateBlobReferences(c, BlobReferences(manifest), st1)
        st3 == ValidateManifestReferences(c,
                   FilteredManifestReferences(manifest, platformFilter), st2,
                   platformFilter)
    IN  IF cacheKey \in st.isValid THEN st
        ELSE IF got.err # "" THEN Failed(st1, got.err)
        ELSE IF manifest.err # "" THEN Failed(st1, manifest.err)
        ELSE IF st2.err # "" THEN st2
        ELSE IF st3.err # "" THEN st3
        ELSE [st3 EXCEPT !.isValid =
                 @ \cup {validationCacheKey(c, manifest.Digest), cacheKey}]

MaxCalls == 2

\* the references that ValidateManifest is called with
ClientReferences ==
    {TagReference("latest")} \cup
        {DigestReference(d) : d \in {"sha256:list", "sha256:amd", "sha256:arm"}}

\* session.last: the call made last on the session
CallOf(fn, c, referenceString, platformFilter, st) ==
    [fn |-> fn, client |-> c, reference |-> referenceString, filter |-> platformFilter,
     err |-> st.err, downloads |-> st.downloads]

\* c.ValidateManifest(reference, session, platformFilter)
ValidateManifest(c, reference, platformFilter) ==
    /\ session.calls < MaxCalls
    /\ \E st \in {doValidateManifest(c, reference, Running(session.isValid),
                                      platformFilter)} :
          session' = [isValid |-> st.isValid, calls |-> session.calls + 1,
                      last |-> CallOf("ValidateManifest", c, ReferenceString(reference),
                                      platformFilter, st)]
    /\ UNCHANGED <<registry, tokenVars, ingestVars, syncVars>>

\* c.ValidateBlobContents(blobDigest, session)
ValidateBlobContents(c, blobDigest) ==
    /\ session.calls < MaxCalls
    /\ \E st \in {doValidateBlobContents(c, blobDigest, Running(session.isValid))} :
          session' = [isValid |-> st.isValid, calls |-> session.calls + 1,
                      last |-> CallOf("ValidateBlobContents", c, blobDigest, {}, st)]
    /\ UNCHANGED <<registry, tokenVars, ingestVars, syncVars>>

NoValidation ==
    [fn |-> "none", client |-> FirstClient, reference |-> "", filter |-> {}, err |-> "",
     downloads |-> <<>>]

\* A new session; the first repository whole, or with the image for arm64
\* missing or not parsable, or with a blob of it corrupt or missing; the
\* second repository whole; the third with a corrupt layer
InitSession ==
    /\ session = [isValid |-> {}, calls |-> 0, last |-> NoValidation]
    /\ registry \in
         {[c \in RepoClients |->
              IF c = FirstClient THEN first
              ELSE IF c.RepoName = "foo/sub" THEN RepositoryWith({}, {}, {}, {})
              ELSE RepositoryWith({}, {}, {"sha256:layer"}, {})] :
            first \in {RepositoryWith({}, {}, {}, {}),
                       RepositoryWith({"sha256:arm"}, {}, {}, {}),
                       RepositoryWith({}, {"sha256:arm"}, {}, {}),
                       RepositoryWith({}, {}, {"sha256:cfgb"}, {}),
                       RepositoryWith({}, {}, {}, {"sha256:cfgb"}),
                       RepositoryWith({}, {}, {"sha256:layer"}, {})}}
    /\ account = [Name |-> "test1", UpstreamPeerHostName |-> "", RequiredLabels |-> <<>>,
                  InMaintenance |-> FALSE]
    /\ repos = {}
    /\ mounts = {}
    /\ manifests = {}
    /\ tags = {}
    /\ mrefs = {}
    /\ brefs = {}
    /\ storage = {}
    /\ lastPush = NoPush
    /\ upstream = {}
    /\ sweep = NotStarted
    /\ now = 0
    /\ sched = NullTime
    /\ ret = NoReturn
    /\ job = NoJob
    /\ blobs = {}
    /\ requests = NoRequests
    /\ applied = NoCall
    /\ cfg = [APIPublicHostname |-> LocalHostname,
              AnycastAPIPublicHostname |-> AnycastHostname,
              JWTIssuerKeys |-> <<"K1">>, AnycastJWTIssuerKeys |-> <<>>]
    /\ tok = NoToken
    /\ prov = NoProvenance
    /\ res = NoResult

\* the first repository is validated by tag and by digest under each
\* filter, the others by the digest of the image for amd64 and by the
\* digest of the shared layer
NextSession ==
    \/ \E reference \in ClientReferences, platformFilter \in PlatformFilters :
          ValidateManifest(FirstClient, reference, platformFilter)
    \/ \E c \in RepoClients \ {FirstClient} :
          ValidateManifest(c, DigestReference("sha256:amd"), {})
    \/ \E blobDigest \in ClientBlobDigests : ValidateBlobContents(FirstClient, blobDigest)
    \/ \E c \in RepoClients \ {FirstClient} : ValidateBlobContents(c, "sha256:layer")

SpecSession == InitSession /\ [][NextSession]_vars

\* a call is made on the session in this step
SessionCall == session'.calls = session.calls + 1

\* the cache key of what the call of this step was asked to validate
CalledKey == validationCacheKey(session'.last.client, session'.last.reference)

\* the cache keys that the call of this step has inserted
InsertedKeys == session'.isValid \ session.isValid

ManifestReferenceStrings == {ReferenceString(reference) : reference \in ClientReferences}

\* everything that has a cache key: a repository, and a tag or digest in it
Cacheable == RepoClients \X (ManifestReferenceStrings \cup ClientBlobDigests)

\* the manifest is there and can be parsed, and the keys of all its blobs
\* and of its children under the filter are in the set of keys
ManifestSound(c, referenceString, platformFilter, keys) ==
    LET contents == registry[c].manifest[referenceString]
        manifest == ParseManifest(contents)
        descs == FilteredManifestReferences(manifest, platformFilter)
    IN  /\ contents # ""
        /\ manifest.err = ""
        /\ \A i \in 1..Len(manifest.Blobs) :
              validationCacheKey(c, manifest.Blobs[i]) \in keys
        /\ \A i \in 1..Len(descs) : validationCacheKey(c, descs[i].Digest) \in keys

RECURSIVE SelectedBelow(_, _, _)

SelectedBelow(c, referenceString, platformFilter) ==
    LET manifest == ParseManifest(registry[c].manifest[referenceString])
        descs == FilteredManifestReferences(manifest, platformFilter)
    IN  UNION {{descs[i].Digest} \cup SelectedBelow(c, descs[i].Digest, platformFilter) :
                  i \in 1..Len(descs)}

\* in this session the manifest was validated with all its blobs: its key
\* and the keys of its blobs are in the cache, and the manifest and the
\* blobs are what they should be
ValidatedInSession(c, manifestDigest, keys) ==
    LET manifest == ParseManifest(registry[c].manifest[manifestDigest])
    IN  /\ validationCacheKey(c, manifestDigest) \in keys
        /\ manifest.err = ""
        /\ \A i \in 1..Len(manifest.Blobs) :
              /\ validationCacheKey(c, manifest.Blobs[i]) \in keys
              /\ registry[c].blob[manifest.Blobs[i]] = "ok"

\* C39: when ValidateManifest(ref, session, filter) returns nil, every
\* child manifest that this filter selects has been validated in this
\* session with all its blobs, whatever was validated in the session
\* before, under whatever filter.
C39_FilterSelectedChildrenValidated ==
    [][(SessionCall /\ session'.last.fn = "ValidateManifest" /\ session'.last.err = "") =>
          \A child \in SelectedBelow(session'.last.client, session'.last.reference,
                                      session'.last.filter) :
              ValidatedInSession(session'.last.client, child, session'.isValid)]_vars

====
